---- MODULE Spec2Model ----
(***************************************************************************)
(* Key-value store core of bonsaidb-local (database/keyvalue.rs):          *)
(* KeyValueState with its three layers (dirty_keys, keys_being_persisted,  *)
(* the on-disk tree), the persistence worker (persist_keys), the           *)
(* background scheduler (background_worker) and shutdown().                *)
(*                                                                         *)
(* Every action that runs under the state mutex is one atomic step and     *)
(* reads the clock once.  The worker's storage transaction runs without    *)
(* the mutex and is a step of its own.                                     *)
(*                                                                         *)
(* Specifications:                                                         *)
(*   Spec            callers performing operations and calling shutdown(), *)
(*                   storage that may fail                                 *)
(*   SpecLive        Spec without failures, the workers fair               *)
(*   SpecExpiry      the expiration tests: keys on disk, immediate         *)
(*                   persistence, update_key_expiration called directly    *)
(*   SpecUnattended  SpecExpiry without any operation, clock and threads   *)
(*                   fair                                                  *)
(*   SpecLazy        the deferred-persistence test: Sets of three keys     *)
(*   SpecDeferred    SpecLazy without shutdown(), clock and threads fair   *)
(*   SpecFaulty      operations over a tree whose reads may fail           *)
(*   SpecSnapshot    operations and calls of all_key_value_entries         *)
(*   SpecLoader      the ExpirationLoader running beside operations        *)
(*   SpecNumeric     Increments and Decrements of one key at the edges of  *)
(*                   u64 and i64                                           *)
(*   SpecPair        full_key and split_key applied to namespaces and keys *)
(*   SpecDrop        the owner dropping the store, the threads fair        *)
(***************************************************************************)
EXTENDS Integers, Sequences, FiniteSets, TLC

(***************************************************************************)
(* Bounds of the model.                                                    *)
(***************************************************************************)
MaxTime == 1
MaxOps == 2
MaxShutdowns == 1

Keys == {"a", "b"}

\* the keys of the tree in the runs that call update_key_expiration directly
TreeKeys == {"a", "b", "c"}
\* the largest expiration timestamp given there, and the number of calls
MaxExpiration == 2
MaxUpdates == 3
\* the number of calls in the runs without any foreground operation
MaxUnattended == 2
\* the number of Sets in the runs of the deferred-persistence test
MaxSets == 3
\* the number of Increments and Decrements in the runs that count on one key
MaxCounts == 2
\* the longest namespace and key given to full_key
MaxLen == 2

(***************************************************************************)
(* Option<T>.                                                              *)
(***************************************************************************)
None == [some |-> FALSE]
Some(x) == [some |-> TRUE, v |-> x]
IsSome(o) == o.some
IsNone(o) == ~o.some

(***************************************************************************)
(* 64-bit machine words as four 16-bit limbs, least significant first.     *)
(* u64 and i64 share the representation; i64 is two's complement.          *)
(***************************************************************************)
Limb == 65536
HalfLimb == 32768

WordZero == <<0, 0, 0, 0>>
WordOne == <<1, 0, 0, 0>>
U64Max == <<65535, 65535, 65535, 65535>>
I64Max == <<65535, 65535, 65535, 32767>>
I64Min == <<0, 0, 0, 32768>>

AddCarry(a, b, cin) ==
    LET s1 == a[1] + b[1] + cin
        s2 == a[2] + b[2] + (s1 \div Limb)
        s3 == a[3] + b[3] + (s2 \div Limb)
        s4 == a[4] + b[4] + (s3 \div Limb)
    IN  [sum |-> <<s1 % Limb, s2 % Limb, s3 % Limb, s4 % Limb>>,
         carry |-> s4 \div Limb]

NotWord(a) == <<65535 - a[1], 65535 - a[2], 65535 - a[3], 65535 - a[4]>>

wrapping_add(a, b) == AddCarry(a, b, 0).sum
wrapping_sub(a, b) == AddCarry(a, NotWord(b), 1).sum

IsNegative(a) == a[4] >= HalfLimb

\* unsigned a < b
ULess(a, b) == AddCarry(a, NotWord(b), 1).carry = 0

saturating_add_u64(a, b) ==
    IF AddCarry(a, b, 0).carry = 1 THEN U64Max ELSE wrapping_add(a, b)

saturating_sub_u64(a, b) ==
    IF ULess(a, b) THEN WordZero ELSE wrapping_sub(a, b)

saturating_add_i64(a, b) ==
    LET r == wrapping_add(a, b)
    IN  IF IsNegative(a) = IsNegative(b) /\ IsNegative(r) # IsNegative(a)
        THEN (IF IsNegative(a) THEN I64Min ELSE I64Max)
        ELSE r

saturating_sub_i64(a, b) ==
    LET r == wrapping_sub(a, b)
    IN  IF IsNegative(a) # IsNegative(b) /\ IsNegative(r) # IsNegative(a)
        THEN (IF IsNegative(a) THEN I64Min ELSE I64Max)
        ELSE r

(***************************************************************************)
(* Value and Numeric.                                                      *)
(***************************************************************************)
Bytes(b) == [kind |-> "Bytes", b |-> b]
Integer(w) == [kind |-> "Numeric", variant |-> "Integer", n |-> w]
UnsignedInteger(w) == [kind |-> "Numeric", variant |-> "UnsignedInteger", n |-> w]

\* Numeric::as_i64_lossy: same variant exact; u64 -> i64 clamps to i64::MAX
\* when saturating and reinterprets the bits otherwise.
as_i64_lossy(existing, saturating) ==
    IF existing.variant = "Integer" THEN existing.n
    ELSE IF saturating /\ IsNegative(existing.n) THEN I64Max
    ELSE existing.n

\* Numeric::as_u64_lossy: same variant exact; i64 -> u64 clamps negatives to
\* 0 when saturating and reinterprets the bits otherwise.
as_u64_lossy(existing, saturating) ==
    IF existing.variant = "UnsignedInteger" THEN existing.n
    ELSE IF saturating /\ IsNegative(existing.n) THEN WordZero
    ELSE existing.n

increment(existing, amount, saturating) ==
    IF amount.variant = "Integer"
    THEN LET existing_value == as_i64_lossy(existing, saturating)
         IN  Integer(IF saturating
                     THEN saturating_add_i64(existing_value, amount.n)
                     ELSE wrapping_add(existing_value, amount.n))
    ELSE LET existing_value == as_u64_lossy(existing, saturating)
         IN  UnsignedInteger(IF saturating
                             THEN saturating_add_u64(existing_value, amount.n)
                             ELSE wrapping_add(existing_value, amount.n))

\* faulty variant: the difference is clamped also when the command does not
\* saturate
decrement_clamping(existing, amount, saturating) ==
    IF amount.variant = "Integer"
    THEN Integer(saturating_sub_i64(as_i64_lossy(existing, saturating), amount.n))
    ELSE UnsignedInteger(saturating_sub_u64(as_u64_lossy(existing, saturating), amount.n))

decrement(existing, amount, saturating) ==
    IF amount.variant = "Integer"
    THEN LET existing_value == as_i64_lossy(existing, saturating)
         IN  Integer(IF saturating
                     THEN saturating_sub_i64(existing_value, amount.n)
                     ELSE wrapping_sub(existing_value, amount.n))
    ELSE LET existing_value == as_u64_lossy(existing, saturating)
         IN  UnsignedInteger(IF saturating
                             THEN saturating_sub_u64(existing_value, amount.n)
                             ELSE wrapping_sub(existing_value, amount.n))

\* Entry { value, expiration, last_updated }
Entry(value, expiration, last_updated) ==
    [value |-> value, expiration |-> expiration, last_updated |-> last_updated]

(***************************************************************************)
(* BTreeMap<String, _> as a function on a subset of Keys.                  *)
(***************************************************************************)
EmptyMap == [k \in {} |-> None]
MapInsert(m, key, val) ==
    [k \in (DOMAIN m) \cup {key} |-> IF k = key THEN val ELSE m[k]]
MapRemove(m, key) == [k \in (DOMAIN m) \ {key} |-> m[k]]

\* VecDeque::remove(index) / insert(index, x), indices from 1
SeqRemove(s, i) == [j \in 1..(Len(s) - 1) |-> IF j < i THEN s[j] ELSE s[j + 1]]
SeqInsert(s, i, x) ==
    [j \in 1..(Len(s) + 1) |-> IF j < i THEN s[j] ELSE IF j = i THEN x ELSE s[j - 1]]
IndexOf(s, x) == CHOOSE i \in 1..Len(s) : s[i] = x

(***************************************************************************)
(* KeyValuePersistence: a list of thresholds {changes, duration}.          *)
(* Immediate persists after every change.                                  *)
(***************************************************************************)
Threshold(changes, duration) == [changes |-> changes, duration |-> duration]
Immediate == <<Threshold(1, None)>>
\* two changes at once, or one change that has waited CommitDelay
CommitDelay == 1
LazyTwoOrTimed == <<Threshold(2, None), Threshold(1, Some(CommitDelay))>>

ThresholdRange(p) == {p[i] : i \in 1..Len(p)}
DurationOf(t) == IF IsSome(t.duration) THEN t.duration.v ELSE 0
SaturatingSub(a, b) == IF a > b THEN a - b ELSE 0
SetMin(S) == CHOOSE x \in S : \A y \in S : x <= y

should_commit(p, n, elapsed) ==
    \E t \in ThresholdRange(p) :
        n >= t.changes /\ (IsNone(t.duration) \/ elapsed >= t.duration.v)

duration_until_next_commit(p, n, elapsed) ==
    LET applicable == {t \in ThresholdRange(p) : n >= t.changes}
    IN  IF applicable = {} THEN None
        ELSE Some(SetMin({SaturatingSub(DurationOf(t), elapsed) : t \in applicable}))

(***************************************************************************)
(* The state.                                                              *)
(***************************************************************************)
VARIABLES
    now,                       \* the clock (Timestamp::now())
    persistence,               \* KeyValueState.persistence
    roots,                     \* the on-disk tree "kv": full key -> Entry
    last_commit,
    background_worker_target,
    target_changed,            \* the scheduler's Watcher has an unread value
    expiring_keys,
    expiration_order,
    dirty_keys,
    keys_being_persisted,
    last_persistence,
    shutdown,                  \* KeyValueState.shutdown is Some(sender)
    workers,                   \* the live "keyvalue-persist" threads
    current_target,            \* background_worker: the target it read last
    loader,                    \* the ExpirationLoader job
    handles,                   \* who is alive: the owner's Arc, the scheduler thread
    \* history of the run, read only by the properties
    opCount,
    lastOp,
    lastOut,
    model,                     \* one map full key -> Option<Entry>
    modelOut,
    lastWrite,
    shutdownCalls,
    shutdownLog,
    receivers,                 \* shutdown() calls that returned a receiver
    notified,                  \* sends on a shutdown notifier
    drainOps                   \* operations performed while a notifier is installed

kvvars == <<roots, persistence, last_commit, background_worker_target, target_changed,
            expiring_keys, expiration_order, dirty_keys, keys_being_persisted,
            last_persistence, shutdown, workers>>
histvars == <<opCount, lastOp, lastOut, model, modelOut, lastWrite,
              shutdownCalls, shutdownLog, receivers, notified, drainOps>>
vars == <<now, kvvars, current_target, loader, handles, histvars>>

\* The KeyValueState as one value, for the methods below.
KVS ==
    [roots |-> roots, persistence |-> persistence, last_commit |-> last_commit,
     background_worker_target |-> background_worker_target,
     target_changed |-> target_changed,
     expiring_keys |-> expiring_keys, expiration_order |-> expiration_order,
     dirty_keys |-> dirty_keys, keys_being_persisted |-> keys_being_persisted,
     last_persistence |-> last_persistence, shutdown |-> shutdown,
     workers |-> workers]

Install(s) ==
    /\ roots' = s.roots
    /\ persistence' = s.persistence
    /\ last_commit' = s.last_commit
    /\ background_worker_target' = s.background_worker_target
    /\ target_changed' = s.target_changed
    /\ expiring_keys' = s.expiring_keys
    /\ expiration_order' = s.expiration_order
    /\ dirty_keys' = s.dirty_keys
    /\ keys_being_persisted' = s.keys_being_persisted
    /\ last_persistence' = s.last_persistence
    /\ shutdown' = s.shutdown
    /\ workers' = s.workers

(***************************************************************************)
(* BackgroundWorkerProcessTarget and the Watchable that publishes it.      *)
(***************************************************************************)
Never == [kind |-> "Never"]
Now == [kind |-> "Now"]
Timestamp(t) == [kind |-> "Timestamp", t |-> t]

\* Watchable::replace stores the value and always notifies the watcher.
WatchableReplace(s, target) ==
    [s EXCEPT !.background_worker_target = target, !.target_changed = TRUE]
\* Watchable::update stores and notifies only when the value differs.
WatchableUpdate(s, target) ==
    IF s.background_worker_target = target THEN s
    ELSE [s EXCEPT !.background_worker_target = target, !.target_changed = TRUE]

Elapsed(t, since) == IF t >= since THEN t - since ELSE 0

\* faulty variant: the next expiration is left out of the target
update_background_worker_target_commit_only(s, t) ==
    LET persisting == IsSome(s.keys_being_persisted)
        duration ==
            IF persisting THEN None
            ELSE duration_until_next_commit(s.persistence,
                     Cardinality(DOMAIN s.dirty_keys), Elapsed(t, s.last_commit))
        commit_target == IF IsSome(duration) THEN Some(t + duration.v) ELSE None
    IN  IF IsSome(commit_target) /\ commit_target.v <= t
        THEN WatchableReplace(s, Now)
        ELSE IF IsSome(commit_target)
        THEN WatchableUpdate(s, Timestamp(commit_target.v))
        ELSE WatchableUpdate(s, Never)

\* faulty variant: when there is a commit target, the expiration is not
\* compared with the clock
update_background_worker_target_first_match(s, t) ==
    LET key_expiration_target ==
            IF Len(s.expiration_order) > 0
            THEN Some(s.expiring_keys[s.expiration_order[1]]) ELSE None
        persisting == IsSome(s.keys_being_persisted)
        duration ==
            IF persisting THEN None
            ELSE duration_until_next_commit(s.persistence,
                     Cardinality(DOMAIN s.dirty_keys), Elapsed(t, s.last_commit))
        commit_target == IF IsSome(duration) THEN Some(t + duration.v) ELSE None
    IN  IF IF IsSome(commit_target) THEN commit_target.v <= t
           ELSE IsSome(key_expiration_target) /\ key_expiration_target.v <= t
        THEN WatchableReplace(s, Now)
        ELSE IF IsSome(commit_target) /\ IsSome(key_expiration_target)
        THEN WatchableUpdate(s, Timestamp(
                 IF key_expiration_target.v <= commit_target.v
                 THEN key_expiration_target.v ELSE commit_target.v))
        ELSE IF IsSome(commit_target)
        THEN WatchableUpdate(s, Timestamp(commit_target.v))
        ELSE IF IsSome(key_expiration_target)
        THEN WatchableUpdate(s, Timestamp(key_expiration_target.v))
        ELSE WatchableUpdate(s, Never)

update_background_worker_target(s, t) ==
    LET key_expiration_target ==
            IF Len(s.expiration_order) > 0
            THEN Some(s.expiring_keys[s.expiration_order[1]]) ELSE None
        persisting == IsSome(s.keys_being_persisted)
        duration ==
            IF persisting THEN None
            ELSE duration_until_next_commit(s.persistence,
                     Cardinality(DOMAIN s.dirty_keys), Elapsed(t, s.last_commit))
        commit_target == IF IsSome(duration) THEN Some(t + duration.v) ELSE None
    IN  IF \/ (IsSome(commit_target) /\ commit_target.v <= t)
           \/ (IsSome(key_expiration_target) /\ key_expiration_target.v <= t)
        THEN WatchableReplace(s, Now)
        ELSE IF IsSome(commit_target) /\ IsSome(key_expiration_target)
        THEN WatchableUpdate(s, Timestamp(
                 IF key_expiration_target.v <= commit_target.v
                 THEN key_expiration_target.v ELSE commit_target.v))
        ELSE IF IsSome(commit_target)
        THEN WatchableUpdate(s, Timestamp(commit_target.v))
        ELSE IF IsSome(key_expiration_target)
        THEN WatchableUpdate(s, Timestamp(key_expiration_target.v))
        ELSE WatchableUpdate(s, Never)

(***************************************************************************)
(* The expiration index.                                                   *)
(***************************************************************************)
\* faulty variant: the key is always pushed to the back
InsertAt_back(order, expiring, expiration) == 0

\* first index whose key expires strictly after `expiration`, 0 if none
InsertAt(order, expiring, expiration) ==
    LET later == {i \in 1..Len(order) : expiring[order[i]] > expiration}
    IN  IF later = {} THEN 0 ELSE SetMin(later)

\* faulty variant: a key that already has an expiration keeps it
update_key_expiration_keeping_first(s, tree_key, expiration, t) ==
    IF tree_key \in DOMAIN s.expiring_keys /\ IsSome(expiration) THEN s
    ELSE IF IsSome(expiration)
    THEN update_background_worker_target(
             [s EXCEPT !.expiration_order = Append(@, tree_key),
                       !.expiring_keys = MapInsert(@, tree_key, expiration.v)], t)
    ELSE IF tree_key \in DOMAIN s.expiring_keys
    THEN update_background_worker_target(
             [s EXCEPT !.expiration_order = SeqRemove(@, IndexOf(@, tree_key)),
                       !.expiring_keys = MapRemove(@, tree_key)], t)
    ELSE s

\* faulty variant: a change of the first expiration is not published
update_key_expiration_unpublished(s, tree_key, expiration, t) ==
    LET known == tree_key \in DOMAIN s.expiring_keys
        existing_entry_index == IF known THEN IndexOf(s.expiration_order, tree_key) ELSE 0
    IN  IF IsSome(expiration)
        THEN LET order1 == IF known
                           THEN SeqRemove(s.expiration_order, existing_entry_index)
                           ELSE s.expiration_order
                 insert_at == InsertAt(order1, s.expiring_keys, expiration.v)
                 order2 == IF insert_at # 0
                           THEN SeqInsert(order1, insert_at, tree_key)
                           ELSE Append(order1, tree_key)
             IN  [s EXCEPT !.expiration_order = order2,
                           !.expiring_keys = MapInsert(@, tree_key, expiration.v)]
        ELSE IF known
        THEN [s EXCEPT !.expiration_order = SeqRemove(@, existing_entry_index),
                       !.expiring_keys = MapRemove(@, tree_key)]
        ELSE s

update_key_expiration(s, tree_key, expiration, t) ==
    LET known == tree_key \in DOMAIN s.expiring_keys
        existing_entry_index == IF known THEN IndexOf(s.expiration_order, tree_key) ELSE 0
        s1 ==
            IF IsSome(expiration)
            THEN LET order1 == IF known
                               THEN SeqRemove(s.expiration_order, existing_entry_index)
                               ELSE s.expiration_order
                     insert_at == InsertAt(order1, s.expiring_keys, expiration.v)
                     order2 == IF insert_at # 0
                               THEN SeqInsert(order1, insert_at, tree_key)
                               ELSE Append(order1, tree_key)
                 IN  [s EXCEPT !.expiration_order = order2,
                               !.expiring_keys = MapInsert(@, tree_key, expiration.v)]
            ELSE IF known
            THEN [s EXCEPT !.expiration_order = SeqRemove(@, existing_entry_index),
                           !.expiring_keys = MapRemove(@, tree_key)]
            ELSE s
        changed_first_expiration ==
            IF IsSome(expiration)
            THEN \/ (known /\ existing_entry_index = 1)
                 \/ s1.expiration_order[1] = tree_key
            ELSE known /\ existing_entry_index = 1
    IN  IF changed_first_expiration
        THEN update_background_worker_target(s1, t)
        ELSE s1

\* faulty variant: a key expiring exactly at t is kept
RECURSIVE remove_expired_keys_strict(_, _)
remove_expired_keys_strict(s, t) ==
    IF Len(s.expiration_order) > 0 /\ s.expiring_keys[s.expiration_order[1]] < t
    THEN LET key == s.expiration_order[1]
         IN  remove_expired_keys_strict(
                 [s EXCEPT !.expiration_order = Tail(@),
                           !.expiring_keys = MapRemove(@, key),
                           !.dirty_keys = MapInsert(@, key, None)], t)
    ELSE s

RECURSIVE remove_expired_keys(_, _)
remove_expired_keys(s, t) ==
    IF Len(s.expiration_order) > 0 /\ s.expiring_keys[s.expiration_order[1]] <= t
    THEN LET key == s.expiration_order[1]
         IN  remove_expired_keys(
                 [s EXCEPT !.expiration_order = Tail(@),
                           !.expiring_keys = MapRemove(@, key),
                           !.dirty_keys = MapInsert(@, key, None)], t)
    ELSE s

(***************************************************************************)
(* The layered read and write.                                             *)
(***************************************************************************)
\* The stored bytes are the bincode of the Entry; here the tree holds the
\* Entry itself.
retrieve_key_from_disk(tree, key) ==
    IF key \in DOMAIN tree THEN Some(tree[key]) ELSE None

InBatch(s, key) ==
    IsSome(s.keys_being_persisted) /\ key \in DOMAIN s.keys_being_persisted.v

BatchOrDisk(s, key) ==
    IF InBatch(s, key) THEN s.keys_being_persisted.v[key]
    ELSE retrieve_key_from_disk(s.roots, key)

\* faulty variant: the in-flight batch is not consulted
get_skipping_batch(s, key) ==
    IF key \in DOMAIN s.dirty_keys THEN s.dirty_keys[key]
    ELSE retrieve_key_from_disk(s.roots, key)

\* faulty variant: the layers are read from the bottom, the tree first
get_tree_first(s, key) ==
    IF key \in DOMAIN s.roots THEN retrieve_key_from_disk(s.roots, key)
    ELSE IF InBatch(s, key) THEN s.keys_being_persisted.v[key]
    ELSE IF key \in DOMAIN s.dirty_keys THEN s.dirty_keys[key]
    ELSE None

get(s, key) ==
    IF key \in DOMAIN s.dirty_keys THEN s.dirty_keys[key]
    ELSE IF InBatch(s, key) THEN s.keys_being_persisted.v[key]
    ELSE retrieve_key_from_disk(s.roots, key)

set(s, key, value) ==
    [s EXCEPT !.dirty_keys = MapInsert(@, key, Some(value))]

\* faulty variant: the dirty entry of the key is dropped instead
\* of being replaced by a tombstone
remove_dropping_entry(s, key, t) ==
    LET s1 == update_key_expiration(s, key, None, t)
    IN  IF key \in DOMAIN s1.dirty_keys
        THEN [s |-> [s1 EXCEPT !.dirty_keys = MapRemove(@, key)],
              previous |-> s1.dirty_keys[key]]
        ELSE [s |-> [s1 EXCEPT !.dirty_keys = MapInsert(@, key, None)],
              previous |-> BatchOrDisk(s1, key)]

\* faulty variant: the expiration of the key stays in the index
remove_keeping_expiration(s, key, t) ==
    IF key \in DOMAIN s.dirty_keys
    THEN [s |-> [s EXCEPT !.dirty_keys = MapInsert(@, key, None)],
          previous |-> s.dirty_keys[key]]
    ELSE [s |-> [s EXCEPT !.dirty_keys = MapInsert(@, key, None)],
          previous |-> BatchOrDisk(s, key)]

\* returns the state and the previous entry
remove(s, key, t) ==
    LET s1 == update_key_expiration(s, key, None, t)
    IN  IF key \in DOMAIN s1.dirty_keys
        THEN [s |-> [s1 EXCEPT !.dirty_keys = MapInsert(@, key, None)],
              previous |-> s1.dirty_keys[key]]
        ELSE [s |-> [s1 EXCEPT !.dirty_keys = MapInsert(@, key, None)],
              previous |-> BatchOrDisk(s1, key)]

\* faulty variant: the previous value of a clean key is read from disk only
replace_ignoring_batch(s, key, value) ==
    IF key \notin DOMAIN s.dirty_keys
    THEN [s |-> [s EXCEPT !.dirty_keys = MapInsert(@, key, Some(value))],
          previous |-> retrieve_key_from_disk(s.roots, key)]
    ELSE [s |-> [s EXCEPT !.dirty_keys = MapInsert(@, key, Some(value))],
          previous |-> s.dirty_keys[key]]

\* faulty variant: a key of the batch in flight is overwritten in the batch
replace_into_batch(s, key, value) ==
    IF key \notin DOMAIN s.dirty_keys /\ InBatch(s, key)
    THEN [s |-> [s EXCEPT !.keys_being_persisted =
                               Some(MapInsert(@.v, key, Some(value)))],
          previous |-> s.keys_being_persisted.v[key]]
    ELSE IF key \notin DOMAIN s.dirty_keys
    THEN [s |-> [s EXCEPT !.dirty_keys = MapInsert(@, key, Some(value))],
          previous |-> BatchOrDisk(s, key)]
    ELSE [s |-> [s EXCEPT !.dirty_keys = MapInsert(@, key, Some(value))],
          previous |-> s.dirty_keys[key]]

replace(s, key, value) ==
    IF key \notin DOMAIN s.dirty_keys
    THEN [s |-> [s EXCEPT !.dirty_keys = MapInsert(@, key, Some(value))],
          previous |-> BatchOrDisk(s, key)]
    ELSE [s |-> [s EXCEPT !.dirty_keys = MapInsert(@, key, Some(value))],
          previous |-> s.dirty_keys[key]]

(***************************************************************************)
(* Commands and their Output.                                              *)
(***************************************************************************)
OutputStatus(status) == [kind |-> "Status", status |-> status]
OutputValue(entry) ==
    [kind |-> "Value", value |-> IF IsSome(entry) THEN Some(entry.v.value) ELSE None]
OutputError(error) == [kind |-> "Error", error |-> error]
IsOk(result) == result.kind # "Error"

SetCommand(key, value, expiration, keep_existing_expiration, check, return_previous_value) ==
    [command |-> "Set", key |-> key, value |-> value, expiration |-> expiration,
     keep_existing_expiration |-> keep_existing_expiration, check |-> check,
     return_previous_value |-> return_previous_value]
GetCommand(key, delete) == [command |-> "Get", key |-> key, delete |-> delete]
DeleteCommand(key) == [command |-> "Delete", key |-> key]
NumericCommand(command, key, amount, saturating) ==
    [command |-> command, key |-> key, amount |-> amount, saturating |-> saturating]

\* Value::validate / Numeric::validate reject a NaN float; Bytes and the
\* integer variants always pass.
validate(value) == TRUE

\* faulty variant: the checks look at dirty_keys and the tree only
execute_set_operation_unlayered(s, op, t) ==
    LET entry0 == Entry(op.value, op.expiration, t)
        fetched == op.check # "None" \/ op.return_previous_value \/ op.keep_existing_expiration
        existing == get_skipping_batch(s, op.key)
        updating ==
            CASE op.check = "OnlyIfPresent" -> IsSome(existing)
              [] op.check = "OnlyIfVacant" -> IsNone(existing)
              [] OTHER -> TRUE
        entry == IF op.keep_existing_expiration /\ fetched /\ IsSome(existing)
                 THEN [entry0 EXCEPT !.expiration = existing.v.expiration]
                 ELSE entry0
        s1 == update_key_expiration(s, op.key, entry.expiration, t)
        replaced == replace(s1, op.key, entry)
        s2 == IF fetched THEN set(s1, op.key, entry) ELSE replaced.s
        previous_value == IF fetched THEN existing ELSE replaced.previous
    IN  IF ~updating THEN [s |-> s, result |-> OutputStatus("NotChanged")]
        ELSE [s |-> s2,
              result |-> IF op.return_previous_value THEN OutputValue(previous_value)
                         ELSE IF IsNone(previous_value) THEN OutputStatus("Inserted")
                         ELSE OutputStatus("Updated")]

\* faulty variant: keep_existing_expiration keeps only an expiration that
\* is set, and falls back to the one of the command
execute_set_operation_keeping_some(s, op, t) ==
    LET entry0 == Entry(op.value, op.expiration, t)
        fetched == op.check # "None" \/ op.return_previous_value \/ op.keep_existing_expiration
        existing == get(s, op.key)
        updating ==
            CASE op.check = "OnlyIfPresent" -> IsSome(existing)
              [] op.check = "OnlyIfVacant" -> IsNone(existing)
              [] OTHER -> TRUE
        entry == IF /\ op.keep_existing_expiration /\ fetched /\ IsSome(existing)
                    /\ IsSome(existing.v.expiration)
                 THEN [entry0 EXCEPT !.expiration = existing.v.expiration]
                 ELSE entry0
        s1 == update_key_expiration(s, op.key, entry.expiration, t)
        replaced == replace(s1, op.key, entry)
        s2 == IF fetched THEN set(s1, op.key, entry) ELSE replaced.s
        previous_value == IF fetched THEN existing ELSE replaced.previous
    IN  IF ~updating THEN [s |-> s, result |-> OutputStatus("NotChanged")]
        ELSE [s |-> s2,
              result |-> IF op.return_previous_value THEN OutputValue(previous_value)
                         ELSE IF IsNone(previous_value) THEN OutputStatus("Inserted")
                         ELSE OutputStatus("Updated")]

\* faulty variant: the expiration of the command is put into the index
\* before the check is made
execute_set_operation_eager_expiration(s, op, t) ==
    LET entry0 == Entry(op.value, op.expiration, t)
        fetched == op.check # "None" \/ op.return_previous_value \/ op.keep_existing_expiration
        existing == get(s, op.key)
        updating ==
            CASE op.check = "OnlyIfPresent" -> IsSome(existing)
              [] op.check = "OnlyIfVacant" -> IsNone(existing)
              [] OTHER -> TRUE
        entry == IF op.keep_existing_expiration /\ fetched /\ IsSome(existing)
                 THEN [entry0 EXCEPT !.expiration = existing.v.expiration]
                 ELSE entry0
        s1 == update_key_expiration(s, op.key, entry.expiration, t)
        replaced == replace(s1, op.key, entry)
        s2 == IF fetched THEN set(s1, op.key, entry) ELSE replaced.s
        previous_value == IF fetched THEN existing ELSE replaced.previous
    IN  IF ~updating THEN [s |-> s1, result |-> OutputStatus("NotChanged")]
        ELSE [s |-> s2,
              result |-> IF op.return_previous_value THEN OutputValue(previous_value)
                         ELSE IF IsNone(previous_value) THEN OutputStatus("Inserted")
                         ELSE OutputStatus("Updated")]

execute_set_operation(s, op, t) ==
    LET entry0 == Entry(op.value, op.expiration, t)
        fetched == op.check # "None" \/ op.return_previous_value \/ op.keep_existing_expiration
        existing == get(s, op.key)
        updating ==
            CASE op.check = "OnlyIfPresent" -> IsSome(existing)
              [] op.check = "OnlyIfVacant" -> IsNone(existing)
              [] OTHER -> TRUE
        entry == IF op.keep_existing_expiration /\ fetched /\ IsSome(existing)
                 THEN [entry0 EXCEPT !.expiration = existing.v.expiration]
                 ELSE entry0
        s1 == update_key_expiration(s, op.key, entry.expiration, t)
        replaced == replace(s1, op.key, entry)
        s2 == IF fetched THEN set(s1, op.key, entry) ELSE replaced.s
        previous_value == IF fetched THEN existing ELSE replaced.previous
    IN  IF ~validate(op.value) THEN [s |-> s, result |-> OutputError("invalid value")]
        ELSE IF ~updating THEN [s |-> s, result |-> OutputStatus("NotChanged")]
        ELSE [s |-> s2,
              result |-> IF op.return_previous_value THEN OutputValue(previous_value)
                         ELSE IF IsNone(previous_value) THEN OutputStatus("Inserted")
                         ELSE OutputStatus("Updated")]

execute_get_operation(s, op, t) ==
    IF op.delete
    THEN LET removed == remove(s, op.key, t)
         IN  [s |-> removed.s, result |-> OutputValue(removed.previous)]
    ELSE [s |-> s, result |-> OutputValue(get(s, op.key))]

execute_delete_operation(s, op, t) ==
    LET removed == remove(s, op.key, t)
    IN  [s |-> removed.s,
         result |-> IF IsSome(removed.previous) THEN OutputStatus("Deleted")
                    ELSE OutputStatus("NotChanged")]

NumericOp(command, existing, amount, saturating) ==
    IF command = "Increment" THEN increment(existing, amount, saturating)
    ELSE decrement(existing, amount, saturating)

\* faulty variant: a tombstone in dirty_keys is looked through, so that a
\* deleted or expired entry is counted on
execute_numeric_operation_reviving(s, op, t) ==
    LET current == IF op.key \in DOMAIN s.dirty_keys /\ IsSome(s.dirty_keys[op.key])
                   THEN s.dirty_keys[op.key]
                   ELSE BatchOrDisk(s, op.key)
        entry == IF IsSome(current) THEN current.v
                 ELSE Entry(UnsignedInteger(WordZero), None, t)
    IN  IF entry.value.kind = "Numeric"
        THEN LET value == NumericOp(op.command, entry.value, op.amount, op.saturating)
             IN  [s |-> set(s, op.key, [entry EXCEPT !.value = value]),
                  result |-> [kind |-> "Value", value |-> Some(value)]]
        ELSE [s |-> s, result |-> OutputError("type of stored Value is not Numeric")]

\* faulty variant: the entry stored loses its expiration, which stays in
\* the index
execute_numeric_operation_dropping_expiration(s, op, t) ==
    LET current == get(s, op.key)
        entry == IF IsSome(current) THEN current.v
                 ELSE Entry(UnsignedInteger(WordZero), None, t)
    IN  IF entry.value.kind = "Numeric"
        THEN LET value == NumericOp(op.command, entry.value, op.amount, op.saturating)
             IN  [s |-> set(s, op.key, Entry(value, None, entry.last_updated)),
                  result |-> [kind |-> "Value", value |-> Some(value)]]
        ELSE [s |-> s, result |-> OutputError("type of stored Value is not Numeric")]

execute_numeric_operation(s, op, t) ==
    LET current == get(s, op.key)
        entry == IF IsSome(current) THEN current.v
                 ELSE Entry(UnsignedInteger(WordZero), None, t)
    IN  IF entry.value.kind = "Numeric"
        THEN LET value == NumericOp(op.command, entry.value, op.amount, op.saturating)
             IN  [s |-> set(s, op.key, [entry EXCEPT !.value = value]),
                  result |-> [kind |-> "Value", value |-> Some(value)]]
        ELSE [s |-> s, result |-> OutputError("type of stored Value is not Numeric")]

(***************************************************************************)
(* Staging and committing.                                                 *)
(***************************************************************************)
\* faulty variant: any dirty key is committed at once
needs_commit_any_change(s, t) ==
    IF IsSome(s.keys_being_persisted) THEN FALSE
    ELSE DOMAIN s.dirty_keys # {}

needs_commit(s, t) ==
    IF IsSome(s.keys_being_persisted) THEN FALSE
    ELSE should_commit(s.persistence, Cardinality(DOMAIN s.dirty_keys),
                       Elapsed(t, s.last_commit))

\* faulty variant: the staged batch is not recorded as in flight
stage_dirty_keys_untracked(s) ==
    IF DOMAIN s.dirty_keys # {} /\ IsNone(s.keys_being_persisted)
    THEN [s |-> [s EXCEPT !.dirty_keys = EmptyMap],
          keys |-> Some(s.dirty_keys)]
    ELSE [s |-> s, keys |-> None]

\* faulty variant: dirty_keys is staged also when it is empty
stage_dirty_keys_empty_too(s) ==
    IF IsNone(s.keys_being_persisted)
    THEN [s |-> [s EXCEPT !.keys_being_persisted = Some(s.dirty_keys),
                          !.dirty_keys = EmptyMap],
          keys |-> Some(s.dirty_keys)]
    ELSE [s |-> s, keys |-> None]

\* returns the state and the staged batch
stage_dirty_keys(s) ==
    IF DOMAIN s.dirty_keys # {} /\ IsNone(s.keys_being_persisted)
    THEN [s |-> [s EXCEPT !.keys_being_persisted = Some(s.dirty_keys),
                          !.dirty_keys = EmptyMap],
          keys |-> Some(s.dirty_keys)]
    ELSE [s |-> s, keys |-> None]

\* A "keyvalue-persist" thread about to run persist_keys on `keys`.
Worker(keys) == [pc |-> "transaction", keys |-> keys]

\* returns the state and whether a worker was spawned
commit_dirty_keys(s, t) ==
    LET staged == stage_dirty_keys(s)
    IN  IF IsSome(staged.keys)
        THEN [s |-> [staged.s EXCEPT !.workers = Append(@, Worker(staged.keys.v)),
                                     !.last_commit = t],
              spawned |-> TRUE]
        ELSE [s |-> s, spawned |-> FALSE]

\* faulty variant: the command runs without the expired keys being cleared
perform_kv_operation_keeping_expired(s, op, t) ==
    LET executed ==
            CASE op.command = "Set" -> execute_set_operation(s, op, t)
              [] op.command = "Get" -> execute_get_operation(s, op, t)
              [] op.command = "Delete" -> execute_delete_operation(s, op, t)
              [] OTHER -> execute_numeric_operation(s, op, t)
        s2 == executed.s
        s3 == IF needs_commit(s2, t) THEN commit_dirty_keys(s2, t).s ELSE s2
    IN  IF IsOk(executed.result)
        THEN [s |-> update_background_worker_target(s3, t), result |-> executed.result]
        ELSE [s |-> s2, result |-> executed.result]

\* faulty variant: the commit is considered after a failed command as well
perform_kv_operation_committing_failed(s, op, t) ==
    LET s1 == remove_expired_keys(s, t)
        executed ==
            CASE op.command = "Set" -> execute_set_operation(s1, op, t)
              [] op.command = "Get" -> execute_get_operation(s1, op, t)
              [] op.command = "Delete" -> execute_delete_operation(s1, op, t)
              [] OTHER -> execute_numeric_operation(s1, op, t)
        s2 == executed.s
        s3 == IF needs_commit(s2, t) THEN commit_dirty_keys(s2, t).s ELSE s2
    IN  [s |-> update_background_worker_target(s3, t), result |-> executed.result]

perform_kv_operation(s, op, t) ==
    LET s1 == remove_expired_keys(s, t)
        executed ==
            CASE op.command = "Set" -> execute_set_operation(s1, op, t)
              [] op.command = "Get" -> execute_get_operation(s1, op, t)
              [] op.command = "Delete" -> execute_delete_operation(s1, op, t)
              [] OTHER -> execute_numeric_operation(s1, op, t)
        s2 == executed.s
        s3 == IF needs_commit(s2, t) THEN commit_dirty_keys(s2, t).s ELSE s2
    IN  IF IsOk(executed.result)
        THEN [s |-> update_background_worker_target(s3, t), result |-> executed.result]
        ELSE [s |-> s2, result |-> executed.result]

(***************************************************************************)
(* Full keys as text, and Database::all_key_value_entries.  A text is a    *)
(* sequence of characters; the keys "a", "b" and "c" of the maps above     *)
(* stand for the full keys of KeyText.                                     *)
(***************************************************************************)
NUL == "NUL"

full_key(namespace, key) ==
    (IF IsSome(namespace) THEN namespace.v ELSE << >>) \o <<NUL>> \o key

\* str::split_once at the first NUL; an empty namespace reads as None
split_key(text) ==
    LET nuls == {i \in 1..Len(text) : text[i] = NUL}
    IN  IF nuls = {} THEN None
        ELSE LET at == SetMin(nuls)
                 namespace == SubSeq(text, 1, at - 1)
             IN  Some([namespace |-> IF namespace = << >> THEN None ELSE Some(namespace),
                       key |-> SubSeq(text, at + 1, Len(text))])

KeyText ==
    [k \in TreeKeys |->
        CASE k = "a" -> full_key(None, <<"a">>)
          [] k = "b" -> full_key(None, <<"b">>)
          [] OTHER -> full_key(Some(<<"n">>), <<"c">>)]

\* one layer laid over the entries gathered so far: insert for Some,
\* remove for a tombstone
OverlayEntries(all_entries, layer) ==
    LET inserted == {k \in DOMAIN layer : IsSome(layer[k])}
        removed == {split_key(KeyText[k]).v : k \in (DOMAIN layer) \ inserted}
    IN  [pair \in ((DOMAIN all_entries) \ removed)
                  \cup {split_key(KeyText[k]).v : k \in inserted} |->
            IF \E k \in inserted : split_key(KeyText[k]).v = pair
            THEN layer[CHOOSE k \in inserted : split_key(KeyText[k]).v = pair].v
            ELSE all_entries[pair]]

\* faulty variant: the batch in flight is left out of the snapshot
all_key_value_entries_skipping_batch(s) ==
    LET split == {k \in DOMAIN s.roots : IsSome(split_key(KeyText[k]))}
        scanned == [pair \in {split_key(KeyText[k]).v : k \in split} |->
                       s.roots[CHOOSE k \in split : split_key(KeyText[k]).v = pair]]
    IN  OverlayEntries(scanned, s.dirty_keys)

\* under the mutex: the scan of the tree, then keys_being_persisted, then
\* dirty_keys
all_key_value_entries(s) ==
    LET split == {k \in DOMAIN s.roots : IsSome(split_key(KeyText[k]))}
        scanned == [pair \in {split_key(KeyText[k]).v : k \in split} |->
                       s.roots[CHOOSE k \in split : split_key(KeyText[k]).v = pair]]
        pending == IF IsSome(s.keys_being_persisted)
                   THEN OverlayEntries(scanned, s.keys_being_persisted.v)
                   ELSE scanned
    IN  OverlayEntries(pending, s.dirty_keys)

(***************************************************************************)
(* The same methods when the tree fails to read.  get, replace and remove  *)
(* reach retrieve_key_from_disk when the key is neither in dirty_keys nor  *)
(* in the batch in flight; its Err leaves them through `?`.                *)
(***************************************************************************)
ReadsDisk(s, key) == key \notin DOMAIN s.dirty_keys /\ ~InBatch(s, key)

\* remove: update_key_expiration(key, None) has run before the read
remove_read_error(s, key, t) == update_key_expiration(s, key, None, t)

\* execute_set_operation: with a check, return_previous_value or
\* keep_existing_expiration the read is the first thing done; otherwise it
\* is made by replace, after update_key_expiration and before the insert
execute_set_operation_read_error(s, op, t) ==
    IF op.check # "None" \/ op.return_previous_value \/ op.keep_existing_expiration
    THEN s
    ELSE update_key_expiration(s, op.key, op.expiration, t)

\* perform_kv_operation: result.is_ok() is false, so that neither the commit
\* nor update_background_worker_target follows
perform_kv_operation_read_error(s, op, t) ==
    LET s1 == remove_expired_keys(s, t)
        s2 == CASE op.command = "Set" -> execute_set_operation_read_error(s1, op, t)
                [] op.command = "Get" ->
                       IF op.delete THEN remove_read_error(s1, op.key, t) ELSE s1
                [] op.command = "Delete" -> remove_read_error(s1, op.key, t)
                [] OTHER -> s1
    IN  [s |-> s2, result |-> OutputError("nebari::Error"),
         reads |-> ReadsDisk(s1, op.key)]

\* returns the state and whether a receiver is returned
shutdown_call(s, t) ==
    LET committed == commit_dirty_keys(s, t)
    IN  IF IsNone(s.keys_being_persisted) /\ committed.spawned
        THEN [s |-> [committed.s EXCEPT !.shutdown = TRUE], receiver |-> TRUE]
        ELSE [s |-> s, receiver |-> FALSE]

(***************************************************************************)
(* The persistence worker.                                                 *)
(***************************************************************************)
SortedKeys == <<"a", "b", "c">>

\* The compare-swap pass over the batch, in ascending key order: the new
\* tree and the changed keys it records.
RECURSIVE compare_swap(_, _, _)
compare_swap(tree, keys, i) ==
    IF i > Len(SortedKeys) THEN [tree |-> tree, changed_keys |-> << >>]
    ELSE LET key == SortedKeys[i]
             rest == compare_swap(tree, keys, i + 1)
         IN  IF key \notin DOMAIN keys THEN rest
             ELSE IF IsSome(keys[key])
             THEN [tree |-> MapInsert(rest.tree, key, keys[key].v),
                   changed_keys |-> <<[key |-> key, deleted |-> FALSE]>> \o rest.changed_keys]
             ELSE IF key \in DOMAIN tree
             THEN [tree |-> MapRemove(rest.tree, key),
                   changed_keys |-> <<[key |-> key, deleted |-> TRUE]>> \o rest.changed_keys]
             ELSE rest

\* faulty variant: committed only when a key was removed
persist_transaction_on_removal(tree, keys) ==
    LET swapped == compare_swap(tree, keys, 1)
    IN  IF \E i \in 1..Len(swapped.changed_keys) : swapped.changed_keys[i].deleted
        THEN swapped.tree ELSE tree

\* The transaction of persist_keys: committed iff a key changed.
persist_transaction(tree, keys) ==
    LET swapped == compare_swap(tree, keys, 1)
    IN  IF Len(swapped.changed_keys) > 0 THEN swapped.tree ELSE tree

\* faulty variant: a tombstone is recorded whether or not the key is on disk
persist_changes_recording_all(tree, keys) ==
    LET RECURSIVE record(_)
        record(i) ==
            IF i > Len(SortedKeys) THEN << >>
            ELSE IF SortedKeys[i] \in DOMAIN keys
            THEN <<[key |-> SortedKeys[i], deleted |-> IsNone(keys[SortedKeys[i]])]>>
                 \o record(i + 1)
            ELSE record(i + 1)
    IN  IF Len(record(1)) > 0 THEN Some(record(1)) ELSE None

\* The transaction log entry of persist_keys: the changed keys set as the
\* data of the transaction that is committed, None when the transaction is
\* dropped without a commit.
persist_changes(tree, keys) ==
    LET swapped == compare_swap(tree, keys, 1)
    IN  IF Len(swapped.changed_keys) > 0 THEN Some(swapped.changed_keys) ELSE None

\* faulty variant: during shutdown the notifier is signalled without staging
\* the keys that became dirty meanwhile
persist_finish_no_drain(s, i, t) ==
    LET s1 == update_background_worker_target(
                  [s EXCEPT !.last_persistence = t, !.keys_being_persisted = None], t)
    IN  IF s1.shutdown
        THEN [s |-> [s1 EXCEPT !.shutdown = FALSE, !.workers = SeqRemove(@, i)],
              sent |-> TRUE]
        ELSE [s |-> [s1 EXCEPT !.workers = SeqRemove(@, i)], sent |-> FALSE]

\* faulty variant: during shutdown the notifier is signalled although the
\* worker goes on with a newly staged batch
persist_finish_early_signal(s, i, t) ==
    LET s1 == update_background_worker_target(
                  [s EXCEPT !.last_persistence = t, !.keys_being_persisted = None], t)
        staged == stage_dirty_keys(s1)
    IN  IF s1.shutdown
        THEN IF IsNone(staged.keys)
             THEN [s |-> [s1 EXCEPT !.shutdown = FALSE, !.workers = SeqRemove(@, i)],
                   sent |-> TRUE]
             ELSE [s |-> [staged.s EXCEPT !.shutdown = FALSE,
                                          !.workers[i] = Worker(staged.keys.v)],
                   sent |-> TRUE]
        ELSE [s |-> [s1 EXCEPT !.workers = SeqRemove(@, i)], sent |-> FALSE]

\* faulty variant: the newly staged batch of a shutdown drain is not persisted
\* and the notifier is left unsignalled
persist_finish_no_recursion(s, i, t) ==
    LET s1 == update_background_worker_target(
                  [s EXCEPT !.last_persistence = t, !.keys_being_persisted = None], t)
        staged == stage_dirty_keys(s1)
    IN  IF s1.shutdown
        THEN IF IsNone(staged.keys)
             THEN [s |-> [s1 EXCEPT !.shutdown = FALSE, !.workers = SeqRemove(@, i)],
                   sent |-> TRUE]
             ELSE [s |-> [staged.s EXCEPT !.workers = SeqRemove(@, i)],
                   sent |-> FALSE]
        ELSE [s |-> [s1 EXCEPT !.workers = SeqRemove(@, i)], sent |-> FALSE]

\* faulty variant: the scheduler target is not recomputed when the batch
\* completes
persist_finish_silent(s, i, t) ==
    LET s1 == [s EXCEPT !.last_persistence = t, !.keys_being_persisted = None]
        staged == stage_dirty_keys(s1)
    IN  IF s1.shutdown
        THEN IF IsNone(staged.keys)
             THEN [s |-> [s1 EXCEPT !.shutdown = FALSE, !.workers = SeqRemove(@, i)],
                   sent |-> TRUE]
             ELSE [s |-> [staged.s EXCEPT !.workers[i] = Worker(staged.keys.v)],
                   sent |-> FALSE]
        ELSE [s |-> [s1 EXCEPT !.workers = SeqRemove(@, i)], sent |-> FALSE]

\* The locked tail of persist_keys, run by worker i.
persist_finish(s, i, t) ==
    LET s1 == update_background_worker_target(
                  [s EXCEPT !.last_persistence = t, !.keys_being_persisted = None], t)
        staged == stage_dirty_keys(s1)
    IN  IF s1.shutdown
        THEN IF IsNone(staged.keys)
             THEN [s |-> [s1 EXCEPT !.shutdown = FALSE, !.workers = SeqRemove(@, i)],
                   sent |-> TRUE]
             ELSE [s |-> [staged.s EXCEPT !.workers[i] = Worker(staged.keys.v)],
                   sent |-> FALSE]
        ELSE [s |-> [s1 EXCEPT !.workers = SeqRemove(@, i)], sent |-> FALSE]

(***************************************************************************)
(* ExpirationLoader.  The job takes the snapshot under the mutex, and then *)
(* calls update_key_expiration, which takes the mutex again, once for each *)
(* entry that was last updated before the launch and has an expiration.    *)
(***************************************************************************)
\* the model key of the full key of a pair of the snapshot
KeyOfPair(pair) == CHOOSE k \in TreeKeys : KeyText[k] = full_key(pair.namespace, pair.key)

\* the calls the loop of execute is going to make, in the order of the
\* BTreeMap it iterates
loader_calls(entries, launched_at) ==
    LET due == {KeyOfPair(pair) : pair \in
                   {q \in DOMAIN entries : /\ entries[q].last_updated < launched_at
                                           /\ IsSome(entries[q].expiration)}}
        call(k) == [key |-> k,
                    expiration |-> entries[split_key(KeyText[k]).v].expiration]
        RECURSIVE calls(_)
        calls(i) == IF i > Len(SortedKeys) THEN << >>
                    ELSE IF SortedKeys[i] \in due
                    THEN <<call(SortedKeys[i])>> \o calls(i + 1)
                    ELSE calls(i + 1)
    IN  calls(1)

(***************************************************************************)
(* The reference: one map from full key to Option<Entry>, with the same    *)
(* commands and the same expiration rule (an entry whose expiration is     *)
(* <= now is gone when the next operation starts).                         *)
(***************************************************************************)
Expired(entry, t) ==
    IsSome(entry) /\ IsSome(entry.v.expiration) /\ entry.v.expiration.v <= t

ModelExpire(m, t) == [k \in DOMAIN m |-> IF Expired(m[k], t) THEN None ELSE m[k]]

ModelCommand(m, op, t) ==
    LET existing == m[op.key]
    IN  CASE op.command = "Set" ->
               LET updating ==
                       CASE op.check = "OnlyIfPresent" -> IsSome(existing)
                         [] op.check = "OnlyIfVacant" -> IsNone(existing)
                         [] OTHER -> TRUE
                   expiration == IF op.keep_existing_expiration /\ IsSome(existing)
                                 THEN existing.v.expiration ELSE op.expiration
               IN  IF ~updating THEN [m |-> m, result |-> OutputStatus("NotChanged")]
                   ELSE [m |-> [m EXCEPT ![op.key] = Some(Entry(op.value, expiration, t))],
                         result |-> IF op.return_previous_value THEN OutputValue(existing)
                                    ELSE IF IsNone(existing) THEN OutputStatus("Inserted")
                                    ELSE OutputStatus("Updated")]
          [] op.command = "Get" ->
               [m |-> IF op.delete THEN [m EXCEPT ![op.key] = None] ELSE m,
                result |-> OutputValue(existing)]
          [] op.command = "Delete" ->
               [m |-> [m EXCEPT ![op.key] = None],
                result |-> IF IsSome(existing) THEN OutputStatus("Deleted")
                           ELSE OutputStatus("NotChanged")]
          [] OTHER ->
               LET entry == IF IsSome(existing) THEN existing.v
                            ELSE Entry(UnsignedInteger(WordZero), None, t)
               IN  IF entry.value.kind = "Numeric"
                   THEN LET value == NumericOp(op.command, entry.value, op.amount, op.saturating)
                        IN  [m |-> [m EXCEPT ![op.key] = Some([entry EXCEPT !.value = value])],
                             result |-> [kind |-> "Value", value |-> Some(value)]]
                   ELSE [m |-> m,
                         result |-> OutputError("type of stored Value is not Numeric")]

ModelPerform(m, op, t) == ModelCommand(ModelExpire(m, t), op, t)

(***************************************************************************)
(* Inputs.                                                                 *)
(***************************************************************************)
\* The Set commands tried on each key: the plain write (replace path), one
\* with an expiration, and one for each of return_previous_value,
\* keep_existing_expiration, OnlyIfPresent and OnlyIfVacant (get path).
SetInputs(k, t) ==
    {SetCommand(k, Bytes("x"), None, FALSE, "None", FALSE),
     SetCommand(k, UnsignedInteger(WordOne), Some(t + 1), FALSE, "None", FALSE),
     SetCommand(k, Bytes("x"), Some(t + 1), FALSE, "None", TRUE),
     SetCommand(k, UnsignedInteger(WordOne), None, TRUE, "None", FALSE),
     SetCommand(k, Bytes("x"), None, FALSE, "OnlyIfPresent", FALSE),
     SetCommand(k, UnsignedInteger(WordOne), Some(t + 1), FALSE, "OnlyIfVacant", FALSE)}

NumericInputs(k) ==
    {NumericCommand("Increment", k, UnsignedInteger(WordOne), FALSE),
     NumericCommand("Decrement", k, UnsignedInteger(WordOne), TRUE)}

Operations(t) ==
    UNION {SetInputs(k, t) \cup NumericInputs(k)
           \cup {GetCommand(k, FALSE), GetCommand(k, TRUE), DeleteCommand(k)} : k \in Keys}

(***************************************************************************)
(* History bookkeeping.                                                    *)
(***************************************************************************)
IsWrite(op, result) ==
    /\ IsOk(result)
    /\ \/ op.command \in {"Increment", "Decrement", "Delete"}
       \/ op.command = "Get" /\ op.delete
       \/ op.command = "Set" /\ result # OutputStatus("NotChanged")

\* where the entry of `key` lies: the layer that holds it, or "absent"
LayerOf(s, key) ==
    IF key \in DOMAIN s.dirty_keys
    THEN (IF IsSome(s.dirty_keys[key]) THEN "dirty" ELSE "absent")
    ELSE IF InBatch(s, key)
    THEN (IF IsSome(s.keys_being_persisted.v[key]) THEN "batch" ELSE "absent")
    ELSE IF key \in DOMAIN s.roots THEN "disk" ELSE "absent"

NoWrite == [kind |-> "none"]

\* the last write of a key stored a value that has not expired at time t
Live(write, t) ==
    write.kind = "set" /\ (IsNone(write.expiration) \/ write.expiration.v > t)

WriteRecord(s, op, result, m) ==
    IF op.command \in {"Delete", "Get"}
    THEN [kind |-> "delete", from |-> LayerOf(remove_expired_keys(s, now), op.key)]
    ELSE [kind |-> "set",
          value |-> IF op.command = "Set" THEN op.value ELSE result.value.v,
          expiration |-> IF IsSome(m[op.key]) THEN m[op.key].v.expiration ELSE None]

(***************************************************************************)
(* Init and the actions.                                                   *)
(***************************************************************************)
\* KeyValueState::new over a tree, and the scheduler thread about to read
\* its target for the first time
Start(policy, tree, keys) ==
    /\ now = 0
    /\ persistence = policy
    /\ roots = tree
    /\ last_commit = 0
    /\ background_worker_target = Never
    /\ target_changed = FALSE
    /\ expiring_keys = EmptyMap
    /\ expiration_order = << >>
    /\ dirty_keys = EmptyMap
    /\ keys_being_persisted = None
    /\ last_persistence = 0
    /\ shutdown = FALSE
    /\ workers = << >>
    /\ current_target = Never
    /\ loader = [pc |-> "idle"]
    /\ handles = [owner |-> TRUE, scheduler |-> TRUE]
    /\ opCount = 0
    /\ lastOp = [command |-> "none"]
    /\ lastOut = OutputStatus("none")
    /\ model = [k \in keys |-> retrieve_key_from_disk(tree, k)]
    /\ modelOut = OutputStatus("none")
    /\ lastWrite = [k \in keys |-> NoWrite]
    /\ shutdownCalls = 0
    /\ shutdownLog = [called |-> FALSE]
    /\ receivers = 0
    /\ notified = 0
    /\ drainOps = 0

Init == Start(LazyTwoOrTimed, EmptyMap, Keys)

Tick ==
    /\ now < MaxTime
    /\ now' = now + 1
    /\ UNCHANGED <<handles, loader, kvvars, current_target, histvars>>

\* KeyValueState::perform_kv_operation under the mutex
PerformStep(op) ==
    /\ \E performed \in {perform_kv_operation(KVS, op, now)},
          expected \in {ModelPerform(model, op, now)} :
           /\ Install(performed.s)
           /\ lastOp' = [command |-> op.command, key |-> op.key,
                         delete |-> (op.command = "Get" /\ op.delete),
                         op |-> op]
           /\ lastOut' = performed.result
           /\ model' = expected.m
           /\ modelOut' = expected.result
           /\ lastWrite' = IF IsWrite(op, performed.result)
                           THEN [lastWrite EXCEPT ![op.key] =
                                    WriteRecord(KVS, op, performed.result, expected.m)]
                           ELSE lastWrite
    /\ opCount' = opCount + 1
    /\ drainOps' = IF shutdown THEN drainOps + 1 ELSE drainOps
    /\ UNCHANGED <<handles, loader, now, current_target, shutdownCalls, shutdownLog, receivers, notified>>

Perform(op) == opCount < MaxOps /\ PerformStep(op)

\* KeyValueState::shutdown under the mutex
Shutdown ==
    /\ shutdownCalls < MaxShutdowns
    /\ \E called \in {shutdown_call(KVS, now)} :
           /\ Install(called.s)
           /\ shutdownLog' = [called |-> TRUE, receiver |-> called.receiver,
                              dirty |-> DOMAIN dirty_keys,
                              persisting |-> IsSome(keys_being_persisted)]
           /\ receivers' = IF called.receiver THEN receivers + 1 ELSE receivers
    /\ shutdownCalls' = shutdownCalls + 1
    /\ UNCHANGED <<handles, loader, now, current_target, opCount, lastOp, lastOut, model, modelOut,
                   lastWrite, notified, drainOps>>

\* persist_keys: the storage transaction, outside the mutex; the thread goes
\* on with the changes it committed
PersistTransaction(i) ==
    /\ workers[i].pc = "transaction"
    /\ roots' = persist_transaction(roots, workers[i].keys)
    /\ workers' = [workers EXCEPT ![i] =
                      [pc |-> "finish", keys |-> workers[i].keys,
                       changes |-> persist_changes(roots, workers[i].keys)]]
    /\ UNCHANGED <<handles, loader, now, persistence, last_commit, background_worker_target, target_changed,
                   expiring_keys, expiration_order, dirty_keys, keys_being_persisted,
                   last_persistence, shutdown, current_target, histvars>>

\* persist_keys: the transaction, the compare-swap or the commit returns an
\* error; `?` leaves persist_keys and the thread ends
PersistError(i) ==
    /\ workers[i].pc = "transaction"
    /\ workers' = SeqRemove(workers, i)
    /\ UNCHANGED <<handles, loader, now, roots, persistence, last_commit, background_worker_target,
                   target_changed, expiring_keys, expiration_order, dirty_keys,
                   keys_being_persisted, last_persistence, shutdown, current_target,
                   histvars>>

\* persist_keys: the tail under the mutex
PersistFinish(i) ==
    /\ workers[i].pc = "finish"
    /\ \E finished \in {persist_finish(KVS, i, now)} :
           /\ Install(finished.s)
           /\ notified' = IF finished.sent THEN notified + 1 ELSE notified
    /\ UNCHANGED <<handles, loader, now, current_target, opCount, lastOp, lastOut, model, modelOut,
                   lastWrite, shutdownCalls, shutdownLog, receivers, drainOps>>

\* The Arc<Mutex<KeyValueState>> has a strong holder: the owner or a
\* "keyvalue-persist" thread.  The scheduler holds a Weak, which it upgrades
\* for the rest of one turn of its loop.
StoreAlive == handles.owner \/ Len(workers) > 0

\* background_worker, one turn of its loop that does not act: the target
\* read was Never, watch() returned on a new value, and the next turn reads
\* the target
BackgroundWake ==
    /\ handles.scheduler
    /\ StoreAlive
    /\ current_target = Never
    /\ target_changed
    /\ current_target' = background_worker_target
    /\ target_changed' = FALSE
    /\ UNCHANGED <<handles, loader, now, roots, persistence, last_commit, background_worker_target,
                   expiring_keys, expiration_order, dirty_keys, keys_being_persisted,
                   last_persistence, shutdown, workers, histvars>>

\* background_worker, one turn of its loop that acts: the target read is Now
\* or a Timestamp that is due, or watch_timeout returned on a new value; the
\* thread acts under the mutex and its next turn reads the target
BackgroundAct ==
    /\ handles.scheduler
    /\ StoreAlive
    /\ \/ current_target = Now
       \/ /\ current_target.kind = "Timestamp"
          /\ (current_target.t <= now \/ target_changed)
    /\ LET s1 == remove_expired_keys(KVS, now)
           s2 == IF needs_commit(s1, now) THEN commit_dirty_keys(s1, now).s ELSE s1
       IN  \E s3 \in {update_background_worker_target(s2, now)} :
               /\ Install([s3 EXCEPT !.target_changed = FALSE])
               /\ current_target' = s3.background_worker_target
    /\ UNCHANGED <<handles, loader, now, histvars>>

\* faulty variant: only a wait that finds the sender gone ends the loop;
\* a turn that does not wait goes on without the store
background_worker_leaves_on_wait_only(current, t, alive) ==
    CASE current.kind = "Never" -> ~alive
      [] current.kind = "Timestamp" -> ~alive /\ current.t > t
      [] OTHER -> FALSE

\* background_worker leaves its loop in this turn, having read `current`:
\* the Watchable is a field of the KeyValueState and is gone with it
background_worker_leaves(current, t, alive) ==
    CASE current.kind = "Never" ->
             \* watch() is Err; were it Ok, upgrade() is None
             ~alive
      [] current.kind = "Timestamp" ->
             \* time remaining: watch_timeout is Disconnected, or Ok or
             \* Timeout and upgrade() is None; no time remaining: upgrade()
             \* is None
             ~alive
      [] OTHER ->
             \* Now: upgrade() is None
             ~alive

\* background_worker, the turn of its loop that breaks; the thread ends
BackgroundExit ==
    /\ handles.scheduler
    /\ background_worker_leaves(current_target, now, StoreAlive)
    /\ handles' = [handles EXCEPT !.scheduler = FALSE]
    /\ UNCHANGED <<loader, now, kvvars, current_target, histvars>>

PerformOperation == \E op \in Operations(now) : Perform(op)
WorkerTransaction == \E i \in 1..Len(workers) : PersistTransaction(i)
WorkerError == \E i \in 1..Len(workers) : PersistError(i)
WorkerFinish == \E i \in 1..Len(workers) : PersistFinish(i)

Next ==
    \/ Tick
    \/ PerformOperation
    \/ Shutdown
    \/ WorkerTransaction
    \/ WorkerError
    \/ WorkerFinish
    \/ BackgroundWake
    \/ BackgroundAct

Spec == Init /\ [][Next]_vars

\* Storage that does not fail, threads that keep running, and callers that
\* write, write with an expiration, or delete.
WriteOperations(t) ==
    {op \in Operations(t) :
        \/ op.command = "Delete"
        \/ op.command = "Set" /\ op.check = "None"
              /\ ~op.keep_existing_expiration /\ ~op.return_previous_value}

PerformWrite == \E op \in WriteOperations(now) : Perform(op)

NextOk ==
    \/ Tick
    \/ PerformWrite
    \/ Shutdown
    \/ WorkerTransaction
    \/ WorkerFinish
    \/ BackgroundWake
    \/ BackgroundAct

SpecLive ==
    /\ Init
    /\ [][NextOk]_vars
    /\ WF_vars(WorkerTransaction)
    /\ WF_vars(WorkerFinish)

(***************************************************************************)
(* The store of the expiration tests: default (immediate) persistence, a  *)
(* tree that already holds the keys, and a caller that calls               *)
(* update_key_expiration directly.                                         *)
(***************************************************************************)
ExpiryInit ==
    Start(Immediate, [k \in TreeKeys |-> Entry(Bytes("somevalue"), None, 0)], TreeKeys)

ExpiryTick ==
    /\ now < MaxExpiration
    /\ now' = now + 1
    /\ UNCHANGED <<handles, loader, kvvars, current_target, histvars>>

ExpirationInputs == {None} \cup {Some(e) : e \in 1..MaxExpiration}

\* the entry of k is on disk and no tombstone of k is pending
Standing(s, k) ==
    /\ k \in DOMAIN s.roots
    /\ k \notin DOMAIN s.dirty_keys
    /\ ~InBatch(s, k)

\* KeyValueState::update_key_expiration called under the mutex
UpdateKeyExpiration(k, expiration) ==
    /\ opCount < MaxUpdates
    /\ Install(update_key_expiration(KVS, k, expiration, now))
    /\ opCount' = opCount + 1
    /\ lastOp' = [command |-> "update_key_expiration", key |-> k, delete |-> FALSE]
    /\ lastWrite' = [lastWrite EXCEPT ![k] =
                        [kind |-> "expiration", expiration |-> expiration,
                         replaced |-> IF k \in DOMAIN expiring_keys
                                      THEN Some(expiring_keys[k]) ELSE None,
                         standing |-> Standing(KVS, k)]]
    /\ UNCHANGED <<handles, loader, now, current_target, lastOut, model, modelOut, shutdownCalls,
                   shutdownLog, receivers, notified, drainOps>>

\* a Get or a Delete performed between the calls
ExpiryOperation(op) ==
    /\ opCount < MaxUpdates
    /\ \E performed \in {perform_kv_operation(KVS, op, now)} :
           /\ Install(performed.s)
           /\ lastOut' = performed.result
    /\ opCount' = opCount + 1
    /\ lastOp' = [command |-> op.command, key |-> op.key, delete |-> FALSE]
    /\ lastWrite' = IF op.command = "Delete"
                    THEN [lastWrite EXCEPT ![op.key] = [kind |-> "delete"]]
                    ELSE lastWrite
    /\ UNCHANGED <<handles, loader, now, current_target, model, modelOut, shutdownCalls,
                   shutdownLog, receivers, notified, drainOps>>

UpdateExpiration ==
    \E k \in TreeKeys, expiration \in ExpirationInputs : UpdateKeyExpiration(k, expiration)
PerformBetween ==
    \E k \in TreeKeys :
        \E op \in {GetCommand(k, FALSE), DeleteCommand(k)} : ExpiryOperation(op)

NextExpiry ==
    \/ ExpiryTick
    \/ UpdateExpiration
    \/ PerformBetween
    \/ WorkerTransaction
    \/ WorkerFinish
    \/ BackgroundWake
    \/ BackgroundAct

SpecExpiry == ExpiryInit /\ [][NextExpiry]_vars

\* No foreground operation at all: the calls, the clock, the scheduler and
\* the workers, all of which keep running.
UpdateUnattended == opCount < MaxUnattended /\ UpdateExpiration

\* a step of the clock or of one of the two threads
Unattended ==
    \/ ExpiryTick
    \/ WorkerTransaction
    \/ WorkerFinish
    \/ BackgroundWake
    \/ BackgroundAct

NextUnattended ==
    \/ ExpiryTick
    \/ UpdateUnattended
    \/ WorkerTransaction
    \/ WorkerFinish
    \/ BackgroundWake
    \/ BackgroundAct

SpecUnattended ==
    /\ ExpiryInit
    /\ [][NextUnattended]_vars
    /\ WF_vars(Unattended)

(***************************************************************************)
(* The store of the deferred-persistence test: the thresholds "two         *)
(* changes" and "one change after CommitDelay", an empty tree, and a       *)
(* caller that sets keys.                                                  *)
(***************************************************************************)
LazyInit == Start(LazyTwoOrTimed, EmptyMap, TreeKeys)

\* the clock runs CommitDelay past the last time at which a key is set
LazyTick ==
    /\ now < MaxTime + CommitDelay
    /\ now' = now + 1
    /\ UNCHANGED <<handles, loader, kvvars, current_target, histvars>>

LazySet ==
    /\ now <= MaxTime
    /\ opCount < MaxSets
    /\ \E k \in TreeKeys :
           PerformStep(SetCommand(k, Bytes("x"), None, FALSE, "None", FALSE))

NextLazy ==
    \/ LazyTick
    \/ LazySet
    \/ Shutdown
    \/ WorkerTransaction
    \/ WorkerFinish
    \/ BackgroundWake
    \/ BackgroundAct

SpecLazy == LazyInit /\ [][NextLazy]_vars

\* a step of the clock or of one of the two threads
Deferred ==
    \/ LazyTick
    \/ WorkerTransaction
    \/ WorkerFinish
    \/ BackgroundWake
    \/ BackgroundAct

\* No shutdown; the clock, the scheduler and the workers keep running.
NextDeferred == LazySet \/ Deferred

SpecDeferred ==
    /\ LazyInit
    /\ [][NextDeferred]_vars
    /\ WF_vars(Deferred)

(***************************************************************************)
(* The store of the counting runs: one key, which is absent or holds a     *)
(* number at one of the edges of u64 and i64, and a caller that increments *)
(* and decrements it.  The clock stands still, so nothing is committed.    *)
(***************************************************************************)
NumericWords == {WordZero, WordOne, <<65535, 0, 0, 0>>, I64Max, I64Min, U64Max}
NumericValues == {UnsignedInteger(w) : w \in NumericWords} \cup {Integer(w) : w \in NumericWords}

NumericInit ==
    \E tree \in {EmptyMap} \cup {[k \in {"a"} |-> Entry(v, None, 0)] : v \in NumericValues} :
        Start(LazyTwoOrTimed, tree, {"a"})

Count ==
    /\ opCount < MaxCounts
    /\ \E command \in {"Increment", "Decrement"}, amount \in NumericValues,
          saturating \in BOOLEAN :
           PerformStep(NumericCommand(command, "a", amount, saturating))

NextNumeric == Count

SpecNumeric == NumericInit /\ [][NextNumeric]_vars

(***************************************************************************)
(* The store over a tree whose reads may fail: two keys on disk, immediate *)
(* persistence, and a caller whose operations either run as above or run   *)
(* into the Err of retrieve_key_from_disk, and who calls shutdown().       *)
(***************************************************************************)
FaultyInit ==
    Start(Immediate, [k \in Keys |-> Entry(Bytes("somevalue"), None, 0)], Keys)

\* perform_kv_operation under the mutex, the read of the tree failing; the
\* reference map applies nothing of a failed command
PerformReadError(op) ==
    /\ opCount < MaxOps
    /\ \E performed \in {perform_kv_operation_read_error(KVS, op, now)} :
           /\ performed.reads
           /\ Install(performed.s)
           /\ lastOut' = performed.result
    /\ lastOp' = [command |-> op.command, key |-> op.key,
                  delete |-> (op.command = "Get" /\ op.delete), op |-> op]
    /\ model' = ModelExpire(model, now)
    /\ modelOut' = OutputError("nebari::Error")
    /\ opCount' = opCount + 1
    /\ drainOps' = IF shutdown THEN drainOps + 1 ELSE drainOps
    /\ UNCHANGED <<handles, loader, now, current_target, lastWrite, shutdownCalls, shutdownLog,
                   receivers, notified>>

PerformFailing == \E op \in Operations(now) : PerformReadError(op)

NextFaulty ==
    \/ Tick
    \/ PerformOperation
    \/ PerformFailing
    \/ Shutdown
    \/ WorkerTransaction
    \/ WorkerFinish
    \/ BackgroundWake
    \/ BackgroundAct

SpecFaulty == FaultyInit /\ [][NextFaulty]_vars

(***************************************************************************)
(* The store with a caller of all_key_value_entries: three keys on disk,   *)
(* one of them in a namespace, immediate persistence, and operations       *)
(* between the snapshots.                                                  *)
(***************************************************************************)
SnapshotInit ==
    Start(Immediate, [k \in TreeKeys |-> Entry(Bytes("somevalue"), None, 0)], TreeKeys)

\* the operations performed between the snapshots
SnapshotOperations(t) ==
    UNION {{SetCommand(k, Bytes("x"), None, FALSE, "None", FALSE),
            SetCommand(k, Bytes("x"), Some(t + 1), FALSE, "None", FALSE),
            DeleteCommand(k)} : k \in TreeKeys}

PerformSnapshotOperation == \E op \in SnapshotOperations(now) : Perform(op)

\* Database::all_key_value_entries
Snapshot ==
    /\ lastOp' = [command |-> "all_key_value_entries", key |-> "", delete |-> FALSE]
    /\ lastOut' = [kind |-> "Entries", entries |-> all_key_value_entries(KVS)]
    /\ UNCHANGED <<handles, loader, now, kvvars, current_target, opCount, model, modelOut, lastWrite,
                   shutdownCalls, shutdownLog, receivers, notified, drainOps>>

NextSnapshot ==
    \/ Tick
    \/ PerformSnapshotOperation
    \/ Snapshot
    \/ WorkerTransaction
    \/ WorkerFinish
    \/ BackgroundWake
    \/ BackgroundAct

SpecSnapshot == SnapshotInit /\ [][NextSnapshot]_vars

(***************************************************************************)
(* The store opened over a tree written earlier: two keys with an          *)
(* expiration, the expiration index empty, the ExpirationLoader launched   *)
(* at the opening, and a caller performing operations meanwhile.           *)
(***************************************************************************)
LoaderInit ==
    Start(LazyTwoOrTimed,
          [k \in Keys |-> Entry(Bytes("somevalue"),
                                Some(IF k = "a" THEN MaxTime + 1 ELSE MaxTime + 2), 0)],
          Keys)

\* the job is created when the database is opened, before any operation and
\* after the entries of the tree were written
LoaderLaunch ==
    /\ loader.pc = "idle"
    /\ opCount = 0
    /\ \A k \in DOMAIN roots : roots[k].last_updated < now
    /\ loader' = [pc |-> "launched", launched_at |-> now]
    /\ UNCHANGED <<handles, now, kvvars, current_target, histvars>>

\* ExpirationLoader::execute: all_key_value_entries under the mutex
LoaderSnapshot ==
    /\ loader.pc = "launched"
    /\ loader' = [pc |-> "updating", launched_at |-> loader.launched_at,
                  calls |-> loader_calls(all_key_value_entries(KVS), loader.launched_at)]
    /\ UNCHANGED <<handles, now, kvvars, current_target, histvars>>

\* ExpirationLoader::execute: one turn of the loop that calls
\* update_key_expiration
LoaderUpdate ==
    /\ loader.pc = "updating"
    /\ loader.calls # << >>
    /\ Install(update_key_expiration(KVS, Head(loader.calls).key,
                                     Head(loader.calls).expiration, now))
    /\ loader' = [loader EXCEPT !.calls = Tail(@)]
    /\ UNCHANGED <<handles, now, current_target, histvars>>

\* ExpirationLoader::execute: the loop is over
LoaderFinish ==
    /\ loader.pc = "updating"
    /\ loader.calls = << >>
    /\ loader' = [pc |-> "done", launched_at |-> loader.launched_at]
    /\ UNCHANGED <<handles, now, kvvars, current_target, histvars>>

\* the operations performed while the loader runs and after it
LoaderOperations(t) ==
    UNION {{SetCommand(k, Bytes("x"), None, FALSE, "None", FALSE),
            SetCommand(k, Bytes("x"), Some(t + 1), FALSE, "None", FALSE),
            GetCommand(k, FALSE),
            DeleteCommand(k)} : k \in Keys}

PerformLoaderOperation ==
    /\ loader.pc # "idle"
    /\ \E op \in LoaderOperations(now) : Perform(op)

NextLoader ==
    \/ Tick
    \/ LoaderLaunch
    \/ LoaderSnapshot
    \/ LoaderUpdate
    \/ LoaderFinish
    \/ PerformLoaderOperation
    \/ WorkerTransaction
    \/ WorkerFinish
    \/ BackgroundWake
    \/ BackgroundAct

SpecLoader == LoaderInit /\ [][NextLoader]_vars

(***************************************************************************)
(* full_key and split_key on their own: a namespace and a key are drawn,   *)
(* full_key builds the text, and split_key takes it apart.  The store is   *)
(* not touched.                                                            *)
(***************************************************************************)
\* the characters of the namespaces and keys; none of them is NUL
Characters == {"a", "n"}

\* the texts of at most MaxLen characters
Texts == UNION {[1..len -> Characters] : len \in 0..MaxLen}

NamespaceInputs == {None} \cup {Some(text) : text \in Texts}

PairInit ==
    /\ \E namespace \in NamespaceInputs, key \in Texts :
           lastOp = [command |-> "pair", namespace |-> namespace, key |-> key]
    /\ lastOut = OutputStatus("none")
    /\ now = 0
    /\ persistence = Immediate
    /\ roots = EmptyMap
    /\ last_commit = 0
    /\ background_worker_target = Never
    /\ target_changed = FALSE
    /\ expiring_keys = EmptyMap
    /\ expiration_order = << >>
    /\ dirty_keys = EmptyMap
    /\ keys_being_persisted = None
    /\ last_persistence = 0
    /\ shutdown = FALSE
    /\ workers = << >>
    /\ current_target = Never
    /\ loader = [pc |-> "idle"]
    /\ handles = [owner |-> TRUE, scheduler |-> TRUE]
    /\ opCount = 0
    /\ model = EmptyMap
    /\ modelOut = OutputStatus("none")
    /\ lastWrite = EmptyMap
    /\ shutdownCalls = 0
    /\ shutdownLog = [called |-> FALSE]
    /\ receivers = 0
    /\ notified = 0
    /\ drainOps = 0

\* full_key(namespace, key)
FullKey ==
    /\ lastOp.command = "pair"
    /\ lastOp' = [lastOp EXCEPT !.command = "full_key"]
    /\ lastOut' = [kind |-> "Text", text |-> full_key(lastOp.namespace, lastOp.key)]
    /\ UNCHANGED <<handles, loader, now, kvvars, current_target, opCount, model, modelOut, lastWrite,
                   shutdownCalls, shutdownLog, receivers, notified, drainOps>>

\* split_key(full_key)
SplitKey ==
    /\ lastOp.command = "full_key"
    /\ lastOp' = [lastOp EXCEPT !.command = "split_key"]
    /\ lastOut' = [kind |-> "Split", text |-> lastOut.text, split |-> split_key(lastOut.text)]
    /\ UNCHANGED <<handles, loader, now, kvvars, current_target, opCount, model, modelOut, lastWrite,
                   shutdownCalls, shutdownLog, receivers, notified, drainOps>>

NextPair == FullKey \/ SplitKey

SpecPair == PairInit /\ [][NextPair]_vars

(***************************************************************************)
(* The store and its owner: the owner performs writes and at some moment   *)
(* drops its reference, with or without dirty keys or a batch in flight.   *)
(* The workers and the scheduler keep running; storage does not fail.      *)
(***************************************************************************)
\* the owner drops its Arc
DropOwner ==
    /\ handles.owner
    /\ handles' = [handles EXCEPT !.owner = FALSE]
    /\ UNCHANGED <<loader, now, kvvars, current_target, histvars>>

OwnerWrite == handles.owner /\ PerformWrite

\* a step of the scheduler thread
Scheduler ==
    \/ BackgroundWake
    \/ BackgroundAct
    \/ BackgroundExit

NextDrop ==
    \/ Tick
    \/ OwnerWrite
    \/ DropOwner
    \/ WorkerTransaction
    \/ WorkerFinish
    \/ BackgroundWake
    \/ BackgroundAct
    \/ BackgroundExit

SpecDrop ==
    /\ Init
    /\ [][NextDrop]_vars
    /\ WF_vars(Scheduler)
    /\ WF_vars(WorkerTransaction)
    /\ WF_vars(WorkerFinish)

(***************************************************************************)
(* Properties.                                                             *)
(***************************************************************************)
\* the Output a Get of key k returns when performed in state s at time t
GetIn(s, k, t) == perform_kv_operation(s, GetCommand(k, FALSE), t).result

\* ... in the current state
GetNow(k) == GetIn(KVS, k, now)

\* the KeyValueState after the step
KVSNext ==
    [roots |-> roots', persistence |-> persistence', last_commit |-> last_commit',
     background_worker_target |-> background_worker_target',
     target_changed |-> target_changed',
     expiring_keys |-> expiring_keys', expiration_order |-> expiration_order',
     dirty_keys |-> dirty_keys', keys_being_persisted |-> keys_being_persisted',
     last_persistence |-> last_persistence', shutdown |-> shutdown',
     workers |-> workers']

OnDisk(k) == retrieve_key_from_disk(roots, k)

\* the tree holds what the reference holds for k; an entry whose expiration
\* has passed may already be gone
DiskMatches(k) ==
    \/ OnDisk(k) = model[k]
    \/ Expired(model[k], now) /\ IsNone(OnDisk(k))

Quiescent == DOMAIN dirty_keys = {} /\ IsNone(keys_being_persisted) /\ Len(workers) = 0

\* a step of a persistence worker (transaction, error or locked tail)
WorkerStep == workers' # workers /\ Len(workers') <= Len(workers)

\* C1: every operation returns the Output the single reference map returns
\* for the same sequence of operations.
C1_OutputsMatchSingleMap == lastOut = modelOut

C1_Witness ==
    /\ lastOp.command = "Set"
    /\ lastOut = OutputStatus("Updated")
    /\ lastOp.key \notin DOMAIN roots
    /\ InBatch(KVS, lastOp.key)

\* C2: a Get of K returns the value of the last successful write of K while
\* its expiration is absent or in the future, and absent otherwise: never an
\* older value.
C2_GetReturnsLastWrite ==
    \A k \in Keys :
        GetNow(k) = [kind |-> "Value",
                     value |-> IF Live(lastWrite[k], now)
                               THEN Some(lastWrite[k].value) ELSE None]

C2_Witness ==
    \E k \in Keys :
        /\ Live(lastWrite[k], now)
        /\ InBatch(KVS, k) /\ k \notin DOMAIN dirty_keys
        /\ k \in DOMAIN roots /\ roots[k].value # lastWrite[k].value

\* C3: after a Delete of K (or a Get with delete), a Get of K returns absent,
\* wherever the value lay before and whatever the worker has written since.
C3_DeletedStaysAbsent ==
    \A k \in Keys :
        lastWrite[k].kind = "delete" => GetNow(k) = OutputValue(None)

C3_Witness ==
    \E k \in Keys :
        /\ lastWrite[k] = [kind |-> "delete", from |-> "batch"]
        /\ k \in DOMAIN roots

\* C4: no step of a persistence worker changes what a Get of any key returns.
C4_WorkerInvisible ==
    [][WorkerStep =>
         \E before \in {KVS}, after \in {KVSNext} :
             \A k \in Keys : GetIn(after, k, now) = GetIn(before, k, now)]_vars

C4_Witness ==
    /\ Len(workers) = 1 /\ workers[1].pc = "finish"
    /\ \E k \in DOMAIN workers[1].keys : IsNone(workers[1].keys[k])
    /\ \E k \in DOMAIN workers[1].keys : IsSome(workers[1].keys[k]) /\ k \in DOMAIN roots

\* C5: once nothing is dirty and no batch is in flight, the tree holds for
\* every key the entry the fold of the operations yields.
C5_DiskIsFold == Quiescent => \A k \in Keys : DiskMatches(k)

C5_Witness ==
    /\ Quiescent
    /\ \E k \in Keys :
          lastWrite[k] = [kind |-> "delete", from |-> "disk"] /\ IsNone(OnDisk(k))

\* C6: in the state in which the notifier is signalled, every key is on disk
\* as the operations left it.
C6_DrainedAtSignal ==
    [][notified' > notified => \A k \in Keys : DiskMatches(k)']_vars

C6_Witness ==
    /\ notified >= 1
    /\ drainOps >= 1
    /\ shutdownLog.dirty # {}
    /\ \A k \in Keys : k \in DOMAIN roots

\* C7: shutdown() returns None only when no key is dirty.
C7_NoneOnlyWhenClean ==
    shutdownLog.called => (shutdownLog.receiver \/ shutdownLog.dirty = {})

\* C8: in the state in which the notifier is signalled, dirty_keys is empty
\* and keys_being_persisted is None.
C8_EmptyAtSignal ==
    [][notified' > notified =>
         DOMAIN dirty_keys' = {} /\ IsNone(keys_being_persisted')]_vars

C8_Witness == notified >= 1 /\ drainOps >= 1 /\ ~shutdown

\* C9: an installed notifier is eventually signalled, and no notifier is
\* signalled twice.
C9_SignalledOnce ==
    /\ [](shutdown => <>(~shutdown /\ notified = receivers))
    /\ [](notified <= receivers /\ receivers <= notified + 1)

C9_Witness == receivers >= 1 /\ notified = receivers /\ drainOps >= 1

\* C10: at most one persistence worker is alive.
C10_OneWorker == Len(workers) <= 1

C10_Witness ==
    /\ Len(workers) = 1
    /\ DOMAIN dirty_keys # {}
    /\ should_commit(persistence, Cardinality(DOMAIN dirty_keys), Elapsed(now, last_commit))

\* a tombstone of k is pending: in dirty_keys, or staged with no newer write
Tombstoned(s, k) ==
    \/ k \in DOMAIN s.dirty_keys /\ IsNone(s.dirty_keys[k])
    \/ k \notin DOMAIN s.dirty_keys /\ InBatch(s, k) /\ IsNone(s.keys_being_persisted.v[k])

\* the keys of the expiration index whose expiration is <= t
ExpiredKeys(s, t) == {k \in DOMAIN s.expiring_keys : s.expiring_keys[k] <= t}

\* the Output shows that the command found no entry
FoundNothing(op, out) ==
    CASE op.command = "Get" -> out = OutputValue(None)
      [] op.command = "Delete" -> out = OutputStatus("NotChanged")
      [] op.command = "Set" ->
             out \in {OutputStatus("Inserted"), OutputStatus("NotChanged"), OutputValue(None)}
      [] op.command = "Increment" ->
             out = [kind |-> "Value", value |-> Some(UnsignedInteger(WordOne))]
      [] OTHER -> out = [kind |-> "Value", value |-> Some(UnsignedInteger(WordZero))]

\* C11: keys_being_persisted is Some exactly when a persistence worker is
\* alive, also after a worker has returned an error.
C11_BatchIffWorker == IsSome(keys_being_persisted) <=> Len(workers) >= 1

\* C12: an operation performed after a worker failed (its batch is still
\* held and no worker is alive) starts a worker for that batch again.
C12_FailedBatchRetried ==
    [][(IsSome(keys_being_persisted) /\ Len(workers) = 0 /\ opCount' > opCount)
          => Len(workers') >= 1]_vars

\* C13: an operation performed while the expiration of K is <= now finds no
\* entry of K; when the operation is on another key, K leaves the operation
\* tombstoned and out of expiring_keys and expiration_order.
C13_ExpiredGoneBeforeCommand ==
    [][opCount' > opCount =>
         \E before \in {KVS}, after \in {KVSNext} :
             \A k \in ExpiredKeys(before, now) :
                 IF k = lastOp'.key
                 THEN FoundNothing(lastOp', lastOut')
                 ELSE /\ Tombstoned(after, k)
                      /\ k \notin DOMAIN after.expiring_keys
                      /\ \A i \in 1..Len(after.expiration_order) :
                             after.expiration_order[i] # k]_vars

C13_Witness ==
    \E k \in Keys :
        /\ lastOp.command = "Get" /\ lastOp.key # k
        /\ lastWrite[k].kind = "set"
        /\ IsSome(lastWrite[k].expiration) /\ lastWrite[k].expiration.v <= now
        /\ Tombstoned(KVS, k)
        /\ k \notin DOMAIN expiring_keys
        /\ current_target = Never

\* the expiration last given to k by update_key_expiration
Given(k) == lastWrite[k].expiration

\* C14: a key that stood on disk when update_key_expiration gave it its
\* current expiration keeps standing there, with no tombstone and in no
\* batch, as long as that expiration is in the future, and for ever when
\* the expiration was cleared.
C14_NotBeforeCurrentExpiration ==
    \A k \in TreeKeys :
        (/\ lastWrite[k].kind = "expiration"
         /\ lastWrite[k].standing
         /\ (IsNone(Given(k)) \/ now < Given(k).v))
        => Standing(KVS, k)

C14_Witness ==
    \E k \in TreeKeys :
        /\ lastWrite[k].kind = "expiration"
        /\ lastWrite[k].standing
        /\ IsSome(lastWrite[k].replaced) /\ lastWrite[k].replaced.v <= now
        /\ (IsNone(Given(k)) \/ now < Given(k).v)
        /\ Standing(KVS, k)
        /\ ~target_changed
        /\ current_target = IF IsSome(Given(k)) THEN Timestamp(Given(k).v) ELSE Never

\* C15: with no foreground operation, every key is in the end off the disk
\* once its expiration has passed, with last_persistence published at or
\* after that expiration; and when a worker publishes last_persistence, a
\* key that stood on disk and whose expiration is still ahead is on disk.
C15_ExpiredLeaveDisk ==
    /\ <>[](\A k \in TreeKeys :
               (lastWrite[k].kind = "expiration" /\ IsSome(Given(k)))
               => /\ k \notin DOMAIN roots
                  /\ Given(k).v <= now
                  /\ Given(k).v <= last_persistence)
    /\ [][Len(workers') < Len(workers) =>
            \A k \in TreeKeys :
                (/\ lastWrite[k].kind = "expiration"
                 /\ lastWrite[k].standing
                 /\ IsSome(Given(k)) /\ now < Given(k).v)
                => k \in DOMAIN roots']_vars

C15_Witness ==
    \E k1 \in TreeKeys, k2 \in TreeKeys :
        /\ lastWrite[k1].kind = "expiration" /\ IsSome(Given(k1))
        /\ k1 \notin DOMAIN roots
        /\ Given(k1).v <= last_persistence
        /\ lastWrite[k2].kind = "expiration" /\ IsSome(Given(k2))
        /\ now < Given(k2).v
        /\ k2 \in DOMAIN roots
        /\ Len(workers) = 0

\* C16: expiring_keys and expiration_order hold the same keys,
\* expiration_order holds no key twice, and it is sorted ascending by
\* expiring_keys[key].
C16_IndexSorted ==
    /\ {expiration_order[i] : i \in 1..Len(expiration_order)} = DOMAIN expiring_keys
    /\ \A i \in 1..Len(expiration_order), j \in 1..Len(expiration_order) :
           i < j => expiration_order[i] # expiration_order[j]
    /\ \A i \in 1..Len(expiration_order), j \in 1..Len(expiration_order) :
           i < j => expiring_keys[expiration_order[i]] <= expiring_keys[expiration_order[j]]

C16_Witness ==
    /\ Len(expiration_order) = 3
    /\ lastOp.command = "update_key_expiration"
    /\ expiration_order[2] = lastOp.key
    /\ expiring_keys[expiration_order[1]] < expiring_keys[expiration_order[3]]

\* C17: outside shutdown, a batch is staged only when none is in flight and
\* should_commit holds of the number of keys staged and of the time since
\* last_commit.
C17_StagedOnlyWhenDue ==
    [][(/\ keys_being_persisted' # keys_being_persisted
        /\ IsSome(keys_being_persisted')
        /\ shutdownCalls' = shutdownCalls
        /\ ~shutdown)
       => /\ IsNone(keys_being_persisted)
          /\ Len(workers) = 0
          /\ should_commit(persistence, Cardinality(DOMAIN keys_being_persisted'.v),
                           Elapsed(now, last_commit))]_vars

\* three quick Sets: the first batch holds the first two keys and the third
\* key waits in dirty_keys
C17_Witness ==
    /\ opCount = 3
    /\ now = 0
    /\ last_persistence = 0
    /\ Len(workers) = 1
    /\ Cardinality(DOMAIN workers[1].keys) = 2
    /\ keys_being_persisted = Some(workers[1].keys)
    /\ Cardinality(DOMAIN dirty_keys) = 1
    /\ DOMAIN dirty_keys \cap DOMAIN workers[1].keys = {}

\* every key that was set is on disk with the value set last
Persisted ==
    /\ DOMAIN dirty_keys = {}
    /\ IsNone(keys_being_persisted)
    /\ \A k \in TreeKeys :
           lastWrite[k].kind = "set"
           => k \in DOMAIN roots /\ roots[k].value = lastWrite[k].value

\* C18: with the threshold "one change after CommitDelay", every write is
\* in the end staged and persisted with no further operation, also a write
\* that arrived while an earlier batch was in flight.
C18_DirtyEventuallyPersisted == <>[]Persisted

\* the third key was set at time 0 while the batch of the first two was in
\* flight, and the scheduler committed it CommitDelay later
C18_Witness ==
    /\ opCount = 3
    /\ Persisted
    /\ \A k \in TreeKeys : k \in DOMAIN roots /\ roots[k].last_updated = 0
    /\ last_commit = CommitDelay

\* the entry of k an operation performed now finds: the entry of the
\* reference map, unless its expiration has passed
Prior(k) == ModelExpire(model, now)[k]

CheckPasses(check, prior) ==
    CASE check = "OnlyIfPresent" -> IsSome(prior)
      [] check = "OnlyIfVacant" -> IsNone(prior)
      [] OTHER -> TRUE

\* C19: a Set stores its value iff its check passes on the entry visible
\* before it, and leaves that entry alone otherwise; it returns NotChanged
\* exactly when the check fails, and otherwise the prior value when
\* return_previous_value is set, Inserted when there was no entry and
\* Updated when there was one, whichever layer held the entry.
C19_SetOutcome ==
    [][(opCount' > opCount /\ lastOp'.command = "Set") =>
         \E op \in {lastOp'.op}, after \in {KVSNext} :
             \E prior \in {Prior(op.key)}, stored \in {get(after, op.key)} :
                 /\ (lastOut' = OutputStatus("NotChanged")) <=> ~CheckPasses(op.check, prior)
                 /\ CheckPasses(op.check, prior)
                    => /\ lastOut' = IF op.return_previous_value THEN OutputValue(prior)
                                     ELSE IF IsNone(prior) THEN OutputStatus("Inserted")
                                     ELSE OutputStatus("Updated")
                       /\ IsSome(stored)
                       /\ stored.v.value = op.value
                       /\ stored.v.last_updated = now
                 /\ ~CheckPasses(op.check, prior) => stored = prior]_vars

\* an OnlyIfVacant Set refused on a key whose entry lies in the batch in
\* flight and nowhere else
C19_Witness ==
    /\ lastOp.command = "Set"
    /\ lastOp.op.check = "OnlyIfVacant"
    /\ lastOut = OutputStatus("NotChanged")
    /\ LayerOf(KVS, lastOp.key) = "batch"
    /\ lastOp.key \notin DOMAIN roots

\* the Sets with keep_existing_expiration tried on key k at time t
KeepingSets(k, t) ==
    {SetCommand(k, Bytes("y"), expiration, TRUE, "None", FALSE) :
        expiration \in {None, Some(t + 2)}}

\* C20: a Set with keep_existing_expiration stores its value with the
\* expiration of the entry visible before it, also when that expiration is
\* None, and with its own expiration when no entry was visible; the
\* expiration index holds the expiration stored.
C20_KeepsPriorExpiration ==
    \A k \in Keys :
        \A op \in KeepingSets(k, now) :
            \E after \in {perform_kv_operation(KVS, op, now).s}, prior \in {Prior(k)} :
                \E stored \in {get(after, k)},
                   expiration \in {IF IsSome(prior) THEN prior.v.expiration
                                    ELSE op.expiration} :
                    /\ stored = Some(Entry(op.value, expiration, now))
                    /\ IF IsSome(expiration)
                       THEN /\ k \in DOMAIN after.expiring_keys
                            /\ after.expiring_keys[k] = expiration.v
                       ELSE k \notin DOMAIN after.expiring_keys

\* a Set with keep_existing_expiration has been performed on an entry with
\* an expiration, which lies in the batch in flight, and has kept it
C20_Witness ==
    /\ lastOp.command = "Set"
    /\ lastOp.op.keep_existing_expiration
    /\ IsNone(lastOp.op.expiration)
    /\ lastOut = OutputStatus("Updated")
    /\ \E k \in {lastOp.key} :
           /\ InBatch(KVS, k) /\ IsSome(keys_being_persisted.v[k])
           /\ k \in DOMAIN dirty_keys /\ IsSome(dirty_keys[k])
           /\ dirty_keys[k].v.expiration = keys_being_persisted.v[k].v.expiration
           /\ IsSome(dirty_keys[k].v.expiration)
           /\ expiring_keys[k] = dirty_keys[k].v.expiration.v

\* C21: a Delete of K returns Deleted iff K had a visible entry just before
\* it and NotChanged otherwise, so that a Delete that follows a Delete of K
\* returns NotChanged; a Get of K with delete returns the visible value;
\* both leave K absent and out of expiring_keys and expiration_order.
C21_DeleteOutcome ==
    [][(opCount' > opCount /\ (lastOp'.command = "Delete" \/ lastOp'.delete)) =>
         \E k \in {lastOp'.key}, after \in {KVSNext}, prior \in {Prior(lastOp'.key)} :
             /\ lastOp'.command = "Delete"
                => lastOut' = IF IsSome(prior) THEN OutputStatus("Deleted")
                              ELSE OutputStatus("NotChanged")
             /\ (lastOp'.command = "Delete" /\ lastOp.command = "Delete" /\ lastOp.key = k)
                => lastOut' = OutputStatus("NotChanged")
             /\ lastOp'.command = "Get" => lastOut' = OutputValue(prior)
             /\ IsNone(get(after, k))
             /\ k \notin DOMAIN after.expiring_keys
             /\ \A i \in 1..Len(after.expiration_order) :
                    after.expiration_order[i] # k]_vars

\* a Delete has removed an entry that is on disk with an expiration still
\* ahead: Deleted, a tombstone in dirty_keys, and the index without the key
C21_Witness ==
    /\ lastOp.command = "Delete"
    /\ lastOut = OutputStatus("Deleted")
    /\ \E k \in {lastOp.key} :
           /\ k \in DOMAIN roots
           /\ IsSome(roots[k].expiration) /\ roots[k].expiration.v > now
           /\ k \in DOMAIN dirty_keys /\ IsNone(dirty_keys[k])
           /\ k \notin DOMAIN expiring_keys

\* the Increments and Decrements tried on key k: by one as u64, by one and
\* by minus one as i64, saturating and wrapping
NumericTrials(k) ==
    {NumericCommand(command, k, amount, saturating) :
        command \in {"Increment", "Decrement"},
        amount \in {UnsignedInteger(WordOne), Integer(WordOne), Integer(U64Max)},
        saturating \in BOOLEAN}

\* C22: an Increment or Decrement of a key with no visible entry returns
\* and stores what the operation yields on UnsignedInteger(0), with no
\* expiration; whenever it succeeds the value has the numeric variant of
\* the amount, is the value stored, and is what a following Get returns.
C22_AbsentCountsFromZero ==
    \A k \in Keys :
        \A op \in NumericTrials(k) :
            \E performed \in {perform_kv_operation(KVS, op, now)}, prior \in {Prior(k)} :
                \E stored \in {get(performed.s, k)} :
                    /\ IsNone(prior)
                       => /\ performed.result =
                                [kind |-> "Value",
                                 value |-> Some(NumericOp(op.command, UnsignedInteger(WordZero),
                                                          op.amount, op.saturating))]
                          /\ IsSome(stored) /\ IsNone(stored.v.expiration)
                          /\ k \notin DOMAIN performed.s.expiring_keys
                    /\ IsOk(performed.result)
                       => /\ performed.result.kind = "Value"
                          /\ IsSome(performed.result.value)
                          /\ performed.result.value.v.kind = "Numeric"
                          /\ performed.result.value.v.variant = op.amount.variant
                          /\ IsSome(stored)
                          /\ stored.v.value = performed.result.value.v
                          /\ GetIn(performed.s, k, now) = performed.result

\* an Increment by one has returned one on a key whose entry, a number with
\* an expiration that has passed, still lies in the batch in flight or on
\* disk
C22_Witness ==
    /\ lastOp.command = "Increment"
    /\ lastOut = [kind |-> "Value", value |-> Some(UnsignedInteger(WordOne))]
    /\ \E k \in {lastOp.key} :
           /\ IsSome(BatchOrDisk(KVS, k))
           /\ BatchOrDisk(KVS, k).v.value.kind = "Numeric"
           /\ Expired(BatchOrDisk(KVS, k), now)
           /\ k \in DOMAIN dirty_keys
           /\ dirty_keys[k] = Some(Entry(UnsignedInteger(WordOne), None, now))

\* Exact integers of up to 79 bits and a sign, as five 16-bit limbs in
\* two's complement: a 64-bit word read as unsigned or as signed, and the
\* exact sum and difference of two of them.
Wide(w, signed) ==
    <<w[1], w[2], w[3], w[4], IF signed /\ w[4] >= HalfLimb THEN 65535 ELSE 0>>

WideSum(x, y, cin) ==
    LET s1 == x[1] + y[1] + cin
        s2 == x[2] + y[2] + (s1 \div Limb)
        s3 == x[3] + y[3] + (s2 \div Limb)
        s4 == x[4] + y[4] + (s3 \div Limb)
        s5 == x[5] + y[5] + (s4 \div Limb)
    IN  <<s1 % Limb, s2 % Limb, s3 % Limb, s4 % Limb, s5 % Limb>>

WideAdd(x, y) == WideSum(x, y, 0)
WideSub(x, y) == WideSum(x, [i \in 1..5 |-> 65535 - y[i]], 1)

\* x < y as integers
WideLess(x, y) ==
    IF (x[5] >= HalfLimb) # (y[5] >= HalfLimb) THEN x[5] >= HalfLimb
    ELSE \E i \in 1..5 : x[i] < y[i] /\ \A j \in (i + 1)..5 : x[j] = y[j]

WideClamp(x, lo, hi) == IF WideLess(x, lo) THEN lo ELSE IF WideLess(hi, x) THEN hi ELSE x

\* the integer modulo 2^64
WideLow(x) == <<x[1], x[2], x[3], x[4]>>

\* the sum or difference of two numbers of one variant: clamped to the
\* range of the variant when saturating, modulo 2^64 otherwise
ExactNumeric(command, existing, amount, saturating) ==
    LET signed == amount.variant = "Integer"
        x == Wide(existing.n, signed)
        y == Wide(amount.n, signed)
        exact == IF command = "Increment" THEN WideAdd(x, y) ELSE WideSub(x, y)
        lo == IF signed THEN Wide(I64Min, TRUE) ELSE Wide(WordZero, FALSE)
        hi == IF signed THEN Wide(I64Max, TRUE) ELSE Wide(U64Max, FALSE)
    IN  [kind |-> "Numeric", variant |-> amount.variant,
         n |-> WideLow(IF saturating THEN WideClamp(exact, lo, hi) ELSE exact)]

\* C23: an Increment or Decrement of a number by an amount of the same
\* integer variant (an absent key counting as UnsignedInteger(0)) returns
\* the exact sum or difference clamped to the range of the variant when
\* saturating, and the sum or difference modulo 2^64 otherwise.
C23_ExactOrWrapped ==
    [][opCount' > opCount =>
         \E op \in {lastOp'.op}, prior \in {Prior(lastOp'.key)} :
             \E existing \in {IF IsSome(prior) THEN prior.v.value
                              ELSE UnsignedInteger(WordZero)} :
                 existing.variant = op.amount.variant
                 => lastOut' = [kind |-> "Value",
                                value |-> Some(ExactNumeric(op.command, existing,
                                                            op.amount, op.saturating))]]_vars

\* the absent key has been decremented by UnsignedInteger(1) without
\* saturation, which gave 2^64 - 1
C23_Witness ==
    /\ opCount = 1
    /\ roots = EmptyMap
    /\ lastOp.command = "Decrement"
    /\ lastOp.op.amount = UnsignedInteger(WordOne)
    /\ ~lastOp.op.saturating
    /\ lastOut = [kind |-> "Value", value |-> Some(UnsignedInteger(U64Max))]
    /\ dirty_keys["a"] = Some(Entry(UnsignedInteger(U64Max), None, 0))

\* C24: an Increment or Decrement of a key whose visible value is Bytes
\* returns the error "not Numeric" and changes nothing: dirty_keys,
\* keys_being_persisted, expiring_keys and expiration_order are as they were
\* when the command was dispatched (after the expired keys were cleared),
\* no batch is staged, and a Get performed next returns the Bytes value.
C24_NotNumericChangesNothing ==
    [][(/\ opCount' > opCount
        /\ lastOp'.command \in {"Increment", "Decrement"}
        /\ IsSome(Prior(lastOp'.key))
        /\ Prior(lastOp'.key).v.value.kind = "Bytes")
       => \E dispatched \in {remove_expired_keys(KVS, now)}, after \in {KVSNext} :
              /\ lastOut' = OutputError("type of stored Value is not Numeric")
              /\ after.dirty_keys = dispatched.dirty_keys
              /\ after.keys_being_persisted = dispatched.keys_being_persisted
              /\ after.expiring_keys = dispatched.expiring_keys
              /\ after.expiration_order = dispatched.expiration_order
              /\ ExpiredKeys(KVS, now) = {}
                 => /\ dirty_keys' = dirty_keys
                    /\ expiring_keys' = expiring_keys
                    /\ expiration_order' = expiration_order
              /\ keys_being_persisted' = keys_being_persisted
              /\ workers' = workers
              /\ roots' = roots
              /\ GetIn(after, lastOp'.key, now) = OutputValue(Prior(lastOp'.key))]_vars

\* an Increment has failed on a Bytes entry that has waited in dirty_keys
\* for CommitDelay, and the entry is still there, unstaged
C24_Witness ==
    /\ lastOp.command = "Increment"
    /\ lastOut = OutputError("type of stored Value is not Numeric")
    /\ \E k \in {lastOp.key} :
           /\ k \in DOMAIN dirty_keys /\ IsSome(dirty_keys[k])
           /\ dirty_keys[k].v.value.kind = "Bytes"
           /\ now >= dirty_keys[k].v.last_updated + CommitDelay
    /\ IsNone(keys_being_persisted)
    /\ Len(workers) = 0
    /\ should_commit(persistence, Cardinality(DOMAIN dirty_keys), Elapsed(now, last_commit))

\* the command is one of those that write
Writes(op) ==
    op.command \in {"Set", "Delete", "Increment", "Decrement"}
    \/ (op.command = "Get" /\ op.delete)

\* C25: when the read of the tree made by a Set, Get with delete, Delete,
\* Increment or Decrement fails, dirty_keys, expiring_keys and
\* expiration_order are left as they were when the command was dispatched
\* (after the expired keys were cleared).
C25_FailedReadAppliesNothing ==
    [][(/\ opCount' > opCount
        /\ lastOut' = OutputError("nebari::Error")
        /\ Writes(lastOp'.op))
       => \E dispatched \in {remove_expired_keys(KVS, now)} :
              /\ dirty_keys' = dispatched.dirty_keys
              /\ expiring_keys' = dispatched.expiring_keys
              /\ expiration_order' = dispatched.expiration_order]_vars

\* the namespaces and keys asked for
Namespaces == {None, Some(<<"n">>)}
KeyNames == {<<"a">>, <<"b">>, <<"c">>}

\* the entry the layered read finds for a full key given as text
GetText(s, text) ==
    IF \E k \in TreeKeys : KeyText[k] = text
    THEN get(s, CHOOSE k \in TreeKeys : KeyText[k] = text)
    ELSE None

\* C26: all_key_value_entries returns, for every namespace and key, the
\* entry that get(full_key) finds at that moment in dirty_keys over
\* keys_being_persisted over the tree, no entry where get finds none or a
\* tombstone, and nothing else, also while a worker is writing its batch.
C26_SnapshotIsLayeredRead ==
    [][(lastOp'.command = "all_key_value_entries" /\ lastOut' # lastOut) =>
         \E entries \in {lastOut'.entries} :
             /\ \A namespace \in Namespaces, key \in KeyNames :
                    \E pair \in {[namespace |-> namespace, key |-> key]},
                       visible \in {GetText(KVS, full_key(namespace, key))} :
                        IF IsSome(visible)
                        THEN pair \in DOMAIN entries /\ entries[pair] = visible.v
                        ELSE pair \notin DOMAIN entries
             /\ \A pair \in DOMAIN entries :
                    pair.namespace \in Namespaces /\ pair.key \in KeyNames]_vars

\* a snapshot taken while a worker is about to write a batch that holds a
\* tombstone of a key still on disk, a second key has been set since, and
\* the key in the namespace is on disk only
C26_Witness ==
    /\ lastOp.command = "all_key_value_entries"
    /\ Len(workers) = 1 /\ workers[1].pc = "transaction"
    /\ IsSome(keys_being_persisted)
    /\ "a" \in DOMAIN keys_being_persisted.v /\ IsNone(keys_being_persisted.v["a"])
    /\ "a" \in DOMAIN roots
    /\ "b" \in DOMAIN dirty_keys /\ IsSome(dirty_keys["b"])
    /\ DOMAIN lastOut.entries = {[namespace |-> None, key |-> <<"b">>],
                                 [namespace |-> Some(<<"n">>), key |-> <<"c">>]}
    /\ lastOut.entries[[namespace |-> None, key |-> <<"b">>]] = dirty_keys["b"].v

\* C27: every key of expiring_keys has a visible entry: the layered read
\* finds an entry for it (in dirty_keys, in the batch in flight or on disk)
\* and never a tombstone.
C27_ExpiringKeysAreVisible ==
    \A k \in DOMAIN expiring_keys : IsSome(get(KVS, k))

\* the layers in which key k lies
LayersOf(k) ==
    {layer \in {"dirty", "batch", "disk"} :
        CASE layer = "dirty" -> k \in DOMAIN dirty_keys /\ IsSome(dirty_keys[k])
          [] layer = "batch" -> InBatch(KVS, k)
          [] OTHER -> k \in DOMAIN roots}

\* the entry of the topmost layer that holds k, tombstones included
TopEntry(k) ==
    IF k \in DOMAIN dirty_keys THEN dirty_keys[k]
    ELSE IF IsSome(keys_being_persisted) /\ k \in DOMAIN keys_being_persisted.v
    THEN keys_being_persisted.v[k]
    ELSE IF k \in DOMAIN roots THEN Some(roots[k])
    ELSE None

\* C28: a full key lies in at most one of dirty_keys (as a present entry),
\* keys_being_persisted and the tree.
C28_OneLayerPerKey == \A k \in Keys : Cardinality(LayersOf(k)) <= 1

\* C28, amended: a full key may lie in several layers at once, but staging
\* leaves dirty_keys without any key of the batch, and a Get returns the
\* entry of the topmost layer only (nothing when that entry is a tombstone
\* or has expired), whatever the layers below hold.
C28_OnlyTopLayerVisible ==
    /\ [](\A k \in Keys :
             GetNow(k) = OutputValue(IF Expired(TopEntry(k), now) THEN None
                                     ELSE TopEntry(k)))
    /\ [][(keys_being_persisted' # keys_being_persisted /\ IsSome(keys_being_persisted'))
            => DOMAIN dirty_keys' \cap DOMAIN keys_being_persisted'.v = {}]_vars

\* a key set again after its batch was written and before the worker
\* cleared it lies in all three layers, each with another entry
C28_Witness ==
    \E k \in Keys :
        /\ LayersOf(k) = {"dirty", "batch", "disk"}
        /\ lastOp.command = "Set" /\ lastOp.key = k
        /\ dirty_keys[k].v # keys_being_persisted.v[k].v
        /\ Some(roots[k]) = keys_being_persisted.v[k]
        /\ GetNow(k) = OutputValue(dirty_keys[k])

\* the times of the next commit and of the next expiration, as sets of at
\* most one element: no commit while a batch is in flight
CommitTargets(s, t) ==
    IF IsSome(s.keys_being_persisted) THEN {}
    ELSE {t + d.v : d \in {duration_until_next_commit(
                               s.persistence, Cardinality(DOMAIN s.dirty_keys),
                               Elapsed(t, s.last_commit))} \ {None}}

\* one change, persisted after a delay that never ends within the run
Patient == <<Threshold(1, Some(MaxTime + 3))>>

HeadExpirations(s) ==
    {s.expiring_keys[s.expiration_order[i]] : i \in {1} \cap DOMAIN s.expiration_order}

\* C29: update_background_worker_target publishes Now if the commit target
\* or the head expiration is <= now, otherwise the Timestamp of the earlier
\* of those that exist, and Never when neither exists; there is no commit
\* target while a batch is in flight.  Checked on every reachable state,
\* under each persistence and with the clock read now or later.
C29_TargetPublished ==
    \A policy \in {Immediate, LazyTwoOrTimed, Patient}, t \in now..(now + 2) :
        \E s \in {[KVS EXCEPT !.persistence = policy]} :
            \E published \in {update_background_worker_target(s, t).background_worker_target},
               targets \in {CommitTargets(s, t) \cup HeadExpirations(s)} :
                /\ published = Now <=> \E target \in targets : target <= t
                /\ published = Never <=> targets = {}
                /\ published.kind = "Timestamp"
                   => /\ published.t \in targets
                      /\ \A target \in targets : published.t <= target
                /\ IsSome(s.keys_being_persisted)
                   => published \in {Never} \cup
                          {IF head <= t THEN Now ELSE Timestamp(head) :
                               head \in HeadExpirations(s)}

\* a Set with an expiration performed while a batch is in flight: a key
\* waits in dirty_keys, and the target published is the expiration alone
C29_Witness ==
    /\ lastOp.command = "Set"
    /\ IsOk(lastOut)
    /\ IsSome(keys_being_persisted)
    /\ DOMAIN dirty_keys # {}
    /\ Len(expiration_order) > 0
    /\ expiring_keys[expiration_order[1]] > now
    /\ background_worker_target = Timestamp(expiring_keys[expiration_order[1]])
    /\ IsSome(duration_until_next_commit(persistence, Cardinality(DOMAIN dirty_keys),
                                         Elapsed(now, last_commit)))

\* C30: whenever expiration_order is not empty, the published target is Now
\* or a Timestamp not later than the expiration of the head key, never
\* Never and never a later time.
C30_TargetCoversHead ==
    Len(expiration_order) > 0
    => \/ background_worker_target = Now
       \/ /\ background_worker_target.kind = "Timestamp"
          /\ background_worker_target.t <= expiring_keys[expiration_order[1]]

\* a Set with an expiration has failed on its read of the tree: its
\* expiration heads the index, nothing is dirty, and the target published
\* is that expiration
C30_Witness ==
    /\ lastOp.command = "Set"
    /\ lastOut = OutputError("nebari::Error")
    /\ expiration_order = <<lastOp.key>>
    /\ lastOp.key \notin DOMAIN dirty_keys
    /\ expiring_keys[lastOp.key] > now
    /\ background_worker_target = Timestamp(expiring_keys[lastOp.key])
    /\ target_changed

\* the expiration index holds for k what the visible entry of k says: the
\* expiration of the entry the layered read finds, and nothing when there
\* is no entry or the entry has no expiration
IndexAgrees(s, k) ==
    \E visible \in {get(s, k)} :
        IF IsSome(visible) /\ IsSome(visible.v.expiration)
        THEN k \in DOMAIN s.expiring_keys
             /\ s.expiring_keys[k] = visible.v.expiration.v
        ELSE k \notin DOMAIN s.expiring_keys

\* C31: once the ExpirationLoader has finished beside foreground
\* operations, the expiration index agrees with the visible entry of every
\* key: no expiration of the snapshot was installed for a key that a Set or
\* a Delete changed after the snapshot was taken.
C31_LoaderAgreesWhenDone ==
    loader.pc = "done" => \A k \in Keys : IndexAgrees(KVS, k)

\* the entry of the expiration index for k, as an Option
IndexOf_key(s, k) ==
    IF k \in DOMAIN s.expiring_keys THEN Some(s.expiring_keys[k]) ELSE None

\* C32: starting from the empty store and performing operations only, K is
\* in expiring_keys with timestamp t iff the visible entry of K is present
\* and has expiration Some(t); a successful Set leaves the index with the
\* expiration of the entry it stored (without K when that is None), and an
\* Increment or Decrement leaves the expiration of K and its index entry as
\* they were when the command was dispatched.
C32_IndexIffExpiration ==
    /\ [](\A k \in Keys : IndexAgrees(KVS, k))
    /\ [][(opCount' > opCount /\ IsOk(lastOut')) =>
            \E k \in {lastOp'.key}, after \in {KVSNext},
               dispatched \in {remove_expired_keys(KVS, now)} :
                /\ (lastOp'.command = "Set" /\ lastOut' # OutputStatus("NotChanged"))
                   => /\ IsSome(get(after, k))
                      /\ get(after, k).v.value = lastOp'.op.value
                      /\ IndexOf_key(after, k) = get(after, k).v.expiration
                /\ lastOp'.command \in {"Increment", "Decrement"}
                   => /\ IsSome(get(after, k))
                      /\ get(after, k).v.expiration =
                             (IF IsSome(get(dispatched, k))
                              THEN get(dispatched, k).v.expiration ELSE None)
                      /\ IndexOf_key(after, k) = IndexOf_key(dispatched, k)
                      /\ IndexOf_key(after, k) = get(after, k).v.expiration]_vars

\* an Increment has counted on an entry that has an expiration: the entry
\* stored and the index still hold that expiration
C32_Witness ==
    /\ lastOp.command = "Increment"
    /\ lastOut = [kind |-> "Value", value |-> Some(UnsignedInteger(<<2, 0, 0, 0>>))]
    /\ \E k \in {lastOp.key} :
           /\ k \in DOMAIN dirty_keys /\ IsSome(dirty_keys[k])
           /\ IsSome(dirty_keys[k].v.expiration)
           /\ k \in DOMAIN expiring_keys
           /\ expiring_keys[k] = dirty_keys[k].v.expiration.v
           /\ expiring_keys[k] > now

\* C33: after every successful Set, Increment or Decrement of K performed
\* at time now, the visible entry of K has last_updated = now, whether K had
\* an entry before or not.
C33_LastUpdatedIsNow ==
    [][(/\ opCount' > opCount
        /\ IsOk(lastOut')
        /\ \/ lastOp'.command = "Set" /\ lastOut' # OutputStatus("NotChanged")
           \/ lastOp'.command \in {"Increment", "Decrement"})
       => \E stored \in {get(KVSNext, lastOp'.key)} :
              IsSome(stored) /\ stored.v.last_updated = now]_vars

\* the step stages a batch: keys_being_persisted takes a new content
Staging ==
    keys_being_persisted' # keys_being_persisted /\ IsSome(keys_being_persisted')

\* C34: every step that moves dirty_keys into keys_being_persisted (in
\* perform, in the scheduler, in shutdown() and in the re-staging of the
\* worker's shutdown drain) sets last_commit to the time of that staging.
C34_LastCommitAtStaging == [][Staging => last_commit' = now]_vars

\* C35: for every optional namespace and key without NUL, split_key of the
\* full key gives the namespace and the key back, and no other pair of a
\* namespace and a key has the same full key; None and Some("") are two
\* namespaces.
C35_SplitInvertsFullKey ==
    /\ lastOp.command = "split_key"
       => lastOut.split = Some([namespace |-> lastOp.namespace, key |-> lastOp.key])
    /\ lastOp.command = "full_key"
       => \A namespace \in NamespaceInputs, key \in Texts :
              full_key(namespace, key) = lastOut.text
              => namespace = lastOp.namespace /\ key = lastOp.key

\* the order of the bytes of the characters, and of the texts built of them
CharRank(c) ==
    CASE c = NUL -> 0 [] c = "a" -> 1 [] c = "b" -> 2 [] c = "c" -> 3 [] OTHER -> 4

TextLess(x, y) ==
    \E i \in 1..(Len(x) + 1) :
        /\ \A j \in 1..(i - 1) : j <= Len(y) /\ x[j] = y[j]
        /\ IF i > Len(x) THEN Len(y) >= i
           ELSE i <= Len(y) /\ CharRank(x[i]) < CharRank(y[i])

\* the changes a batch makes to a tree: every key it carries as Some, and
\* every tombstone whose key the tree holds
ExpectedChanges(tree, keys) ==
    {[key |-> k, deleted |-> FALSE] : k \in {j \in DOMAIN keys : IsSome(keys[j])}}
    \cup {[key |-> k, deleted |-> TRUE] :
              k \in {j \in DOMAIN keys : IsNone(keys[j]) /\ j \in DOMAIN tree}}

\* the single worker is at its locked tail and takes it in this step
TailStep == Len(workers) = 1 /\ workers[1].pc = "finish" /\ workers' # workers

\* C36: the changed keys recorded for a batch are in ascending order of
\* their full keys and are one entry with deleted=false for each key the
\* batch carries as Some, one with deleted=true for each tombstone whose key
\* is on disk and none for a tombstone whose key is not; the transaction is
\* committed iff there is such an entry; and whether it was committed or
\* not, the worker's tail publishes last_persistence and clears
\* keys_being_persisted (which holds the newly staged keys at once when a
\* shutdown drain goes on).
C36_ChangedKeys ==
    /\ [][\A i \in 1..Len(workers) :
            (workers[i].pc = "transaction" /\ Len(workers') = Len(workers)
             /\ workers'[i].pc = "finish")
            => \E expected \in {ExpectedChanges(roots, workers[i].keys)},
                  changes \in {workers'[i].changes} :
                   /\ IsSome(changes) <=> expected # {}
                   /\ IsSome(changes)
                      => /\ {changes.v[j] : j \in 1..Len(changes.v)} = expected
                         /\ Len(changes.v) = Cardinality(expected)
                         /\ \A j \in 1..(Len(changes.v) - 1) :
                                TextLess(KeyText[changes.v[j].key],
                                         KeyText[changes.v[j + 1].key])
                   /\ IsNone(changes) => roots' = roots]_vars
    /\ [][TailStep =>
            /\ last_persistence' = now
            /\ \/ IsNone(keys_being_persisted')
               \/ /\ shutdown /\ DOMAIN dirty_keys # {}
                  /\ keys_being_persisted' = Some(dirty_keys)]_vars

\* a batch that sets a key the tree does not hold and carries a tombstone
\* of a key that is not on disk either has been committed with the one change
C36_Witness ==
    /\ Len(workers) = 1 /\ workers[1].pc = "finish"
    /\ DOMAIN workers[1].keys = {"a", "b"}
    /\ IsSome(workers[1].keys["a"]) /\ IsNone(workers[1].keys["b"])
    /\ workers[1].changes = Some(<<[key |-> "a", deleted |-> FALSE]>>)
    /\ roots = [k \in {"a"} |-> workers[1].keys["a"].v]

\* dirty_keys at the moment at which the step stages: after the expired
\* keys were cleared and the command was executed in a perform, after the
\* expired keys were cleared in the scheduler, and as they are in shutdown()
\* and in the worker's tail
DirtyAtStaging ==
    IF opCount' > opCount
    THEN LET s1 == remove_expired_keys(KVS, now)
             op == lastOp'.op
         IN  (CASE op.command = "Set" -> execute_set_operation(s1, op, now)
                [] op.command = "Get" -> execute_get_operation(s1, op, now)
                [] op.command = "Delete" -> execute_delete_operation(s1, op, now)
                [] OTHER -> execute_numeric_operation(s1, op, now)).s.dirty_keys
    ELSE IF shutdownCalls' > shutdownCalls \/ TailStep THEN dirty_keys
    ELSE remove_expired_keys(KVS, now).dirty_keys

\* C37: staging moves dirty_keys into keys_being_persisted: right after it
\* dirty_keys is empty and keys_being_persisted is the dirty_keys staged;
\* from then on the batch in flight is the one the worker writes, and no
\* step other than the worker's tail (no operation, expiry drain, scheduler
\* step or shutdown()) changes keys_being_persisted.
C37_StagingIsAMove ==
    /\ [][Staging => /\ dirty_keys' = EmptyMap
                     /\ keys_being_persisted' = Some(DirtyAtStaging)
                     /\ DirtyAtStaging # EmptyMap]_vars
    /\ [](\A i \in 1..Len(workers) : keys_being_persisted = Some(workers[i].keys))
    /\ [][(IsSome(keys_being_persisted) /\ ~TailStep)
            => keys_being_persisted' = keys_being_persisted]_vars

\* a key of the batch in flight has been written again: the new entry is
\* in dirty_keys, and the batch still holds the entry that was staged
C37_Witness ==
    /\ opCount = 2
    /\ lastOp.command \in {"Set", "Delete"}
    /\ \E k \in {lastOp.key} :
           /\ InBatch(KVS, k) /\ IsSome(keys_being_persisted.v[k])
           /\ k \in DOMAIN dirty_keys
           /\ dirty_keys[k] # keys_being_persisted.v[k]
    /\ Len(workers) = 1 /\ workers[1].pc = "transaction"
    /\ workers[1].keys = keys_being_persisted.v

\* the step performs a command (and is not a direct call of
\* update_key_expiration)
PerformsCommand ==
    opCount' > opCount /\ lastOp'.command # "update_key_expiration"

\* C38: keys_being_persisted, when Some, is never the empty map, and no
\* worker holds an empty batch; a step taken while nothing is dirty and no
\* batch is in flight, which performs no command and finds no key expired,
\* starts no worker, stages nothing and does not publish last_persistence.
C38_NoEmptyBatch ==
    /\ [](IsSome(keys_being_persisted) => DOMAIN keys_being_persisted.v # {})
    /\ [](\A i \in 1..Len(workers) : DOMAIN workers[i].keys # {})
    /\ [][(/\ DOMAIN dirty_keys = {}
           /\ IsNone(keys_being_persisted)
           /\ ~PerformsCommand
           /\ ExpiredKeys(KVS, now) = {})
          => /\ workers' = workers
             /\ Len(workers') = 0
             /\ IsNone(keys_being_persisted')
             /\ DOMAIN dirty_keys' = {}
             /\ last_persistence' = last_persistence]_vars

\* shutdown() has been called after a Get on the empty store: nothing was
\* dirty, so that nothing was staged, no worker runs and last_persistence
\* is as it was at the start
C38_Witness ==
    /\ lastOp.command = "Get" /\ ~lastOp.delete
    /\ shutdownLog.called /\ ~shutdownLog.receiver
    /\ shutdownLog.dirty = {} /\ ~shutdownLog.persisting
    /\ DOMAIN dirty_keys = {}
    /\ IsNone(keys_being_persisted)
    /\ Len(workers) = 0
    /\ last_persistence = 0
    /\ roots = EmptyMap

\* the Sets with a check tried on key k at time t
CheckedSets(k, t) ==
    {SetCommand(k, Bytes("z"), expiration, keep, check, return_previous) :
        expiration \in {None, Some(t + 1), Some(t + 2)},
        keep \in BOOLEAN,
        check \in {"OnlyIfPresent", "OnlyIfVacant"},
        return_previous \in BOOLEAN}

\* C39: a Set whose check fails returns NotChanged and leaves the state as
\* it was when the command was dispatched (after the expired keys were
\* cleared): dirty_keys, expiring_keys, expiration_order and everything else;
\* the expiration of the command is not installed.  Checked on every
\* reachable state for each Set with a check.  After the whole perform of
\* such a Set, the visible entry of K and the index are those at dispatch,
\* and dirty_keys is as at dispatch or has been staged as it was by the
\* commit that follows a successful command.
C39_FailedCheckChangesNothing ==
    /\ [](\A k \in Keys :
             \A op \in CheckedSets(k, now) :
                 \E dispatched \in {remove_expired_keys(KVS, now)} :
                     \E executed \in {execute_set_operation(dispatched, op, now)} :
                         /\ executed.result = OutputStatus("NotChanged")
                            <=> IF op.check = "OnlyIfPresent"
                                THEN IsNone(get(dispatched, k))
                                ELSE IsSome(get(dispatched, k))
                         /\ executed.result = OutputStatus("NotChanged")
                            => executed.s = dispatched)
    /\ [][(/\ opCount' > opCount
           /\ lastOp'.command = "Set"
           /\ lastOut' = OutputStatus("NotChanged"))
          => \E k \in {lastOp'.key}, after \in {KVSNext},
                dispatched \in {remove_expired_keys(KVS, now)} :
                 /\ get(after, k) = get(dispatched, k)
                 /\ after.expiring_keys = dispatched.expiring_keys
                 /\ after.expiration_order = dispatched.expiration_order
                 /\ after.roots = dispatched.roots
                 /\ \/ /\ after.dirty_keys = dispatched.dirty_keys
                       /\ after.keys_being_persisted = dispatched.keys_being_persisted
                    \/ /\ IsNone(dispatched.keys_being_persisted)
                       /\ after.dirty_keys = EmptyMap
                       /\ after.keys_being_persisted = Some(dispatched.dirty_keys)]_vars

\* an OnlyIfVacant Set with an expiration has been refused on a key whose
\* entry has none: the key is not in the index, and the entry, which had
\* waited for CommitDelay, was staged as it was
C39_Witness ==
    /\ lastOp.command = "Set"
    /\ lastOp.op.check = "OnlyIfVacant"
    /\ IsSome(lastOp.op.expiration)
    /\ lastOut = OutputStatus("NotChanged")
    /\ \E k \in {lastOp.key} :
           /\ k \notin DOMAIN expiring_keys
           /\ k \notin DOMAIN dirty_keys
           /\ InBatch(KVS, k) /\ IsSome(keys_being_persisted.v[k])
           /\ IsNone(keys_being_persisted.v[k].v.expiration)
           /\ keys_being_persisted.v[k].v.last_updated < now
    /\ last_commit = now

\* C40: once the owner has dropped the store and no worker holds it, the
\* scheduler thread exits, whatever target it had read (Never, a Timestamp
\* or Now); it does not exit while the store has a holder, and the store is
\* kept alive by the owner and the workers only, so that it is dropped as
\* soon as the owner is gone and the last worker has finished.
C40_SchedulerExits ==
    /\ [](~StoreAlive => <>(~handles.scheduler))
    /\ [][(handles.scheduler /\ ~handles'.scheduler) => ~StoreAlive]_vars
    /\ [](~handles.owner => <>(~StoreAlive))
    /\ [][~StoreAlive => (~StoreAlive' /\ UNCHANGED <<kvvars, current_target>>)]_vars

\* the thread has exited while the target it had read was a Timestamp
\* still ahead, the owner having dropped the store with a key that had an
\* expiration
C40_Witness ==
    /\ ~handles.scheduler
    /\ ~handles.owner
    /\ Len(workers) = 0
    /\ current_target.kind = "Timestamp"
    /\ current_target.t > now
    /\ Len(expiration_order) > 0






















====
